---- MODULE Spec2Model ----
(***************************************************************************)
(* The nanobot agent gateway: the reason-act loop of AgentLoop with its    *)
(* bus, direct, system and SSE entry points, the SSE emitter and request   *)
(* context, the progress fan-in of _execute_with_progress and the tool     *)
(* registry.                                                               *)
(***************************************************************************)
EXTENDS Integers, Sequences, FiniteSets, TLC

(* ------------------------------ bounds --------------------------------- *)

\* largest max_iterations an AgentLoop is constructed with
MaxIterations == 2
\* items the environment produces during one behaviour: invocations (inbound
\* messages, direct calls, SSE requests), tool calls the provider returns,
\* deltas it streams, progress events the tools enqueue
MaxEnv == 4

\* _match_patterns is applied to at most MaxNames names and MaxPatterns patterns
MaxNames == 2
MaxPatterns == 2

\* one stream_chat turn carries at most MaxFragments tool-call fragments
MaxFragments == 3

\* at most MaxInbound messages are published to the bus while run() is observed
MaxInbound == 3

\* the interactive loop reads at most MaxReads lines
MaxReads == 3

\* a progress tool reports at most MaxPuts events per invocation
MaxPuts == 2

\* a response given to the stream_chat fallback carries at most MaxCalls tool calls
MaxCalls == 2

\* the WebSocket clients send at most MaxFrames frames after authenticating,
\* and the channel is asked to send at most MaxFrames messages
MaxFrames == 2

(* ----------------------------- constants ------------------------------- *)

\* Python's None where a string is expected
NoneStr == "<None>"
\* RequestContext._current_message_id before the first mint
NoMessageId == 0

Sentinel == "I've completed processing but have no response to give."
SystemSentinel == "Background task completed."

\* session keys: channel:chat_id for the bus, sse:{session_id} for SSE
BusKey == "cli:c1"
SseKey == "sse:s1"
\* process_direct: the session_key arguments of its callers (the cron job, the
\* heartbeat), and the key channel:chat_id of the message it synthesizes
DirectKeys == {"cron:j1", "heartbeat"}
DirectKey == "cli:direct"
\* the origin session of a system announcement whose chat_id is "cli:c1:x"
OriginKey == "cli:c1:x"
SessionKeys == {BusKey, SseKey, DirectKey, OriginKey} \cup DirectKeys

\* the registry of the agent: a plain tool and a progress-reporting tool
PlainTool == "clock"
ProgressTool == "edu_doc"
UnknownTool == "nope"
DefaultTools == {PlainTool, ProgressTool}
ToolNames == {PlainTool, ProgressTool, UnknownTool}

(* ------------------------------ state ---------------------------------- *)

VARIABLES
    max_iterations,      \* AgentLoop.max_iterations
    sessions,            \* SessionManager: session key -> history
    outbound,            \* MessageBus outbound queue
    pc,                  \* position of the invocation being processed
    req,                 \* the inbound message or SSE request being processed
    iteration,           \* local iteration of the reason-act loop
    messages,            \* local messages: the wire list sent to the provider
    todo,                \* tool calls of the current cycle not yet executed
    final_content,       \* local final_content
    turn_msg_id,         \* local turn_msg_id of the SSE loops
    pending_tool_calls,  \* stream loop: index -> accumulated call
    accumulated_content, \* stream loop: text deltas of this turn
    finish_reason,       \* stream loop: last finish_reason seen
    ctx,                 \* RequestContext runtime state
    events,              \* the SSE events yielded so far
    progress,            \* _execute_with_progress: queue, task, drain position
    tools,               \* ToolRegistry._tools
    exec_log,            \* the last ToolRegistry.execute call and its outcome
    tool_context,        \* (channel, chat_id) held by the message, spawn, cron tools
    match_call,          \* the last _match_patterns / _get_filtered_tool_definitions call
    stream_log,          \* fragments fed to one stream turn, and the calls dispatched
    run_loop,            \* run(): _running, its position, the inbound queue
    auto_reg,            \* a registry of tool instances under auto_register_all
    console,             \* cli: what was printed and read, the outcome of a call
    shared,              \* one progress tool instance under two concurrent requests
    conc,                \* two invocations running concurrently on one agent loop
    fallback,            \* the default stream_chat fed into the stream accumulator
    ws,                  \* the WebSocket channel: registered clients, connections, bus, sends
    obs                  \* observations made of the run (not program state)

loopVars == <<iteration, messages, todo, final_content, turn_msg_id>>
streamVars == <<pending_tool_calls, accumulated_content, finish_reason>>
sseVars == <<ctx, events>>
\* the state of the parts that are looked at on their own
sideVars == <<run_loop, auto_reg, console, shared, conc, fallback, ws>>
regVars == <<tools, exec_log, tool_context, match_call, stream_log, sideVars>>
\* the state of the invocation, the registry and the pure helpers
coreVars == <<max_iterations, sessions, pc, req, loopVars, streamVars, sseVars,
              progress, tools, exec_log, tool_context, match_call, stream_log, obs>>
vars == <<max_iterations, sessions, outbound, pc, req, loopVars, streamVars,
          sseVars, progress, regVars, obs>>

(* ------------------------------ helpers -------------------------------- *)

Last(s) == s[Len(s)]

\* "".join(parts)
RECURSIVE Join(_)
Join(parts) == IF parts = <<>> THEN "" ELSE Head(parts) \o Join(Tail(parts))

(* ----------------- sse/context.py: RequestContext ---------------------- *)

\* ctx.minted lists the ids minted so far (uuid4 gives a fresh one each time,
\* modelled as the next integer), each with the reason-act cycle that minted it.
InitCtx == [message_order |-> 0, current_message_id |-> NoMessageId, minted |-> <<>>]

\* (variant for C5: the counter is read without being advanced)
next_order_reuse(c) == c

\* next_order: increments the counter; the value returned is the new counter
next_order(c) == [c EXCEPT !.message_order = @ + 1]

\* new_message_id: mints and caches; the value returned is current_message_id
new_message_id(c, cyc) ==
    [c EXCEPT !.minted = Append(@, cyc), !.current_message_id = Len(c.minted) + 1]

\* the current_message_id property: mints lazily on first access
current_message_id(c, cyc) ==
    IF c.current_message_id = NoMessageId THEN new_message_id(c, cyc) ELSE c

(* ------------------- sse/emitter.py: SSEEmitter ------------------------ *)

\* An emitter state em is [ctx, events]: the bound context and what was yielded.
\* _build: message_id = message_id or ctx.current_message_id, then next_order().
\* `via` names the emit method and `cycle` the reason-act cycle (0: outside any).
build(em, via, message_type, status, message_id, data, cyc) ==
    LET c1 == IF message_id # NoMessageId THEN em.ctx
              ELSE current_message_id(em.ctx, cyc)
        mid == IF message_id # NoMessageId THEN message_id
               ELSE c1.current_message_id
        c2 == next_order(c1)
    IN [ctx |-> c2,
        events |-> Append(em.events,
            [message_type |-> message_type, status |-> status,
             message_id |-> mid, message_order |-> c2.message_order,
             data |-> data, via |-> via, cycle |-> cyc])]

emit_text_delta(em, delta, mid, cyc) ==
    build(em, "emit_text_delta", "text", "processing", mid, delta, cyc)
\* (variant for C37: the complete text goes out with status processing)
emit_text_complete_processing(em, content, mid, cyc) ==
    build(em, "emit_text_complete", "text", "processing", mid, content, cyc)
emit_text_complete(em, content, mid, cyc) ==
    build(em, "emit_text_complete", "text", "completed", mid, content, cyc)
emit_thinking_delta(em, delta, mid, cyc) ==
    build(em, "emit_thinking_delta", "thought", "processing", mid, delta, cyc)
emit_thinking_complete(em, content, mid, cyc) ==
    build(em, "emit_thinking_complete", "thought", "completed", mid, content, cyc)
emit_html_delta(em, delta, mid, cyc) ==
    build(em, "emit_html_delta", "html", "processing", mid, delta, cyc)
emit_files(em, message_type, mid, cyc) ==
    build(em, "emit_files", message_type, "processing", mid, "files", cyc)
\* delta = f"<bulb> {message}\n"; the bulb character is written (i) here
emit_progress(em, message, mid, cyc) ==
    build(em, "emit_progress", "text", "processing", mid,
          "(i) " \o message \o "\n", cyc)
emit_tool_call(em, tool_name, mid, cyc) ==
    build(em, "emit_tool_call", "tool", "tool_calling", mid, tool_name, cyc)
emit_tool_result(em, result, mid, cyc) ==
    build(em, "emit_tool_result", "tool_result", "processing", mid, result, cyc)
\* (variant for C8: done carries the first id minted for the request)
emit_done_first_id(em) ==
    build(em, "emit_done", "done", "completed",
          IF em.ctx.minted = <<>> THEN NoMessageId ELSE 1, "", 0)

emit_done(em) ==
    build(em, "emit_done", "done", "completed", NoMessageId, "", 0)
emit_error(em, error) ==
    build(em, "emit_error", "error", "error", NoMessageId, error, 0)

(* --------------- agent/tools/registry.py: ToolRegistry ----------------- *)

\* What a tool does when called (the environment of the registry):
\* validate_params returns no errors, returns errors or raises; execute
\* returns `value` or raises.
Behaviour(validate, run, value) == [validate |-> validate, run |-> run, value |-> value]
Behaviours ==
    { Behaviour("ok", "returns", "ok"), Behaviour("ok", "returns", ""),
      Behaviour("ok", "raises", "boom"), Behaviour("errors", "returns", "missing x"),
      Behaviour("raises", "returns", "boom") }

NotFound(name) == "Error: Tool '" \o name \o "' not found"
InvalidParams(name, errors) ==
    "Error: Invalid parameters for tool '" \o name \o "': " \o errors
ErrorExecuting(name, message) == "Error executing " \o name \o ": " \o message

\* the try block of execute: what it returns, or the exception it lets through;
\* `called` tells whether the tool's execute ran
execute_try(name, b) ==
    IF b.validate = "raises"
    THEN [raised |-> TRUE, result |-> b.value, called |-> FALSE]
    ELSE IF b.validate = "errors"
    THEN [raised |-> FALSE, result |-> InvalidParams(name, b.value), called |-> FALSE]
    ELSE IF b.run = "raises"
    THEN [raised |-> TRUE, result |-> b.value, called |-> TRUE]
    ELSE [raised |-> FALSE, result |-> b.value, called |-> TRUE]

\* (variant for C10: no except clause, the exception goes to the caller)
execute_no_except(name, r) == r

\* except Exception as e: the exception becomes the returned string
execute_except(name, r) ==
    IF r.raised THEN [r EXCEPT !.raised = FALSE, !.result = ErrorExecuting(name, r.result)]
    ELSE r

\* ToolRegistry.execute(name, params) on registry tl
execute(tl, name, b) ==
    IF name \notin tl
    THEN [raised |-> FALSE, result |-> NotFound(name), called |-> FALSE]
    ELSE execute_except(name, execute_try(name, b))

(* ------------- session and context builder (not in src/) --------------- *)

\* Session.add_message: the history is an append log
add_message(history, role, content) ==
    Append(history, [role |-> role, content |-> content])

WireMsg(role, content, tool_calls, tool_call_id) ==
    [role |-> role, content |-> content, tool_calls |-> tool_calls,
     tool_call_id |-> tool_call_id]

RECURSIVE HistoryToWire(_)
HistoryToWire(h) ==
    IF h = <<>> THEN <<>>
    ELSE <<WireMsg(Head(h).role, Head(h).content, <<>>, "")>> \o HistoryToWire(Tail(h))

\* ContextBuilder.build_messages: system prompt, history, current message
build_messages(history, current_message) ==
    <<WireMsg("system", "prompt", <<>>, "")>> \o HistoryToWire(history)
        \o <<WireMsg("user", current_message, <<>>, "")>>

\* ContextBuilder.add_assistant_message
add_assistant_message(msgs, content, tool_calls) ==
    Append(msgs, WireMsg("assistant", content, tool_calls, ""))

\* ContextBuilder.add_tool_result
add_tool_result(msgs, tool_call_id, result) ==
    Append(msgs, WireMsg("tool", result, <<>>, tool_call_id))


(* --------------------------- the environment --------------------------- *)

\* A chat_id is kept as its colon-separated segments: <<"cli", "c1">> is "cli:c1".
RECURSIVE JoinColon(_)
JoinColon(segs) ==
    IF Len(segs) = 1 THEN Head(segs) ELSE Head(segs) \o ":" \o JoinColon(Tail(segs))

\* SSERequest.tool_list, a list of glob patterns (each a sequence of
\* characters): the default ["*"], and ["cl*"]
AllTools == << <<"*">> >>
RestrictedToolList == << <<"c", "l", "*">> >>

\* CronPayload: deliver, to, channel ("" where unset); NoPayload: no cron job
Payload(deliver, to, channel) == [deliver |-> deliver, to |-> to, channel |-> channel]
NoPayload == Payload(FALSE, "", "")
CronPayloads ==
    { Payload(TRUE, "u1", "telegram"), Payload(TRUE, "u1", ""),
      Payload(TRUE, "", "telegram"), Payload(FALSE, "u1", "telegram") }

\* InboundMessage; session_key is the derived channel:chat_id
Inbound(entry, channel, sender_id, chat_segs, content) ==
    [entry |-> entry, channel |-> channel, sender_id |-> sender_id,
     chat_segs |-> chat_segs, content |-> content,
     session_key_arg |-> "", metadata |-> {}, payload |-> NoPayload,
     stream |-> FALSE, enable_thinking |-> FALSE, agent_type |-> "agent",
     tool_list |-> AllTools]

session_key(msg) == msg.channel \o ":" \o JoinColon(msg.chat_segs)

\* SSERequest / RequestContext.from_request; session_key is sse:{session_id}
SseRequest(stream, enable_thinking, agent_type) ==
    [entry |-> "sse", channel |-> "sse", sender_id |-> "user",
     chat_segs |-> <<"s1">>, content |-> "hello", session_key_arg |-> "",
     metadata |-> {}, payload |-> NoPayload,
     stream |-> stream, enable_thinking |-> enable_thinking,
     agent_type |-> agent_type, tool_list |-> AllTools]

NoRequest == Inbound("none", "", "", <<"">>, "")

\* the metadata a channel attaches (a mapping as its set of items)
ThreadMetadata == {<<"thread_ts", "42">>}
WithMetadata(msg) == [msg EXCEPT !.metadata = ThreadMetadata]
BusInbound ==
    { WithMetadata(Inbound("bus", "cli", "user", <<"c1">>, "hello")),
      \* system announcements: chat_id "cli:c1:x", and chat_id "c1" (no colon)
      WithMetadata(Inbound("bus", "system", "child", <<"cli", "c1", "x">>, "done")),
      WithMetadata(Inbound("bus", "system", "child", <<"c1">>, "done")) }
\* process_direct(content, session_key): channel and chat_id are left to their
\* defaults cli and direct, as the cron, heartbeat and CLI callers do
Direct(session_key_arg) ==
    [Inbound("direct", "cli", "user", <<"direct">>, "hello")
        EXCEPT !.session_key_arg = session_key_arg]
\* on_heartbeat, and on_cron_job with each payload
DirectCalls ==
    { Direct("heartbeat") }
    \cup { [Direct("cron:j1") EXCEPT !.payload = p] : p \in CronPayloads }
SseRequests ==
    { SseRequest(st, th, "agent") : st \in BOOLEAN, th \in BOOLEAN }
    \cup { SseRequest(st, FALSE, at) : st \in BOOLEAN, at \in {"workflow", "other"} }
    \cup { [SseRequest(st, FALSE, "agent") EXCEPT !.tool_list = RestrictedToolList] :
                st \in BOOLEAN }

\* the tool calls a provider may return, and the responses of provider.chat
\* (arguments as the JSON text json.dumps gives)
ToolCall(id, name) == [id |-> id, name |-> name, arguments |-> "{}"]
ToolCalls ==
    { ToolCall("t1", PlainTool), ToolCall("t2", ProgressTool),
      ToolCall("t3", UnknownTool) }

SeqsUpTo(S, n) == UNION { [1..k -> S] : k \in 0..n }

LLMResponse(content, tool_calls, reasoning_content, fr) ==
    [content |-> content, tool_calls |-> tool_calls,
     reasoning_content |-> reasoning_content, finish_reason |-> fr]

\* the responses with at most n tool calls: a final answer, or tool calls
ChatResponses(n) ==
    { LLMResponse(c, <<>>, r, fr) :
        c \in {NoneStr, "hi"}, r \in {NoneStr, "why"}, fr \in {"stop", "error"} }
    \cup
    { LLMResponse(NoneStr, tcs, r, "tool_calls") :
        tcs \in SeqsUpTo(ToolCalls, n) \ {<<>>}, r \in {NoneStr, "why"} }

has_tool_calls(resp) == Len(resp.tool_calls) > 0

\* what the tools of the loop do when called: return, raise, or reject
\* the parameters
LoopBehaviours ==
    { Behaviour("ok", "returns", "ok"), Behaviour("ok", "raises", "boom"),
      Behaviour("errors", "returns", "missing x") }

(* ------- two requests on one progress tool instance: the state --------- *)

\* The SSE handler and its agent loop are one per application, so every request
\* reaches the same registered tool instance; requests are coroutines that
\* interleave at their awaits.
Invocations == {1, 2}
Other(i) == 3 - i
CtxOf(i) == [session_id |-> IF i = 1 THEN "s1" ELSE "s2",
             request_id |-> IF i = 1 THEN "r1" ELSE "r2"]

\* the attributes of the tool instance: _progress_queue (0: None, i: the queue
\* invocation i created), _session_id, _request_id
NoInstanceState == [queue |-> 0, session_id |-> NoneStr, request_id |-> NoneStr]

\* one invocation of the helper: its position, its background task, the
\* attributes the tool read when its execute began, its own queue, the events
\* it yielded to its request's stream
NoInvocation ==
    [at |-> "idle", task |-> "none", seen |-> NoInstanceState, puts |-> 0,
     queue |-> <<>>, yielded |-> <<>>, dropped |-> 0]

(* ----------------------------- observations ---------------------------- *)

InitObs ==
    [requests |-> 0,                       \* invocations started
     completed |-> [k \in SessionKeys |-> 0], \* ended without an exception
     provider_calls |-> 0,                 \* chat / stream_chat calls, this invocation
     tool_turns |-> 0,                     \* provider turns that returned tool calls
     raised |-> FALSE,                     \* this invocation raised
     rejected |-> FALSE,                   \* the handler rejected the agent_type
     dispatched |-> 0,                     \* registry dispatches, this invocation
     env |-> 0,                            \* items the environment produced
     before |-> <<>>,                      \* the session's history at the start
     errors |-> 0,                         \* error replies run() published so far
     error_turn |-> 0]                     \* the provider call that ended with
                                           \* finish_reason error (0: none)

StartObs(key) ==
    [InitObs EXCEPT !.requests = obs.requests + 1, !.completed = obs.completed,
                    !.env = obs.env + 1, !.errors = obs.errors,
                    !.before = sessions[key]]

\* a stream turn that has received no fragment and dispatched no call
NoStream == [fed |-> <<>>, calls |-> <<>>]

\* no _match_patterns call made yet
NoMatchCall == [via |-> "none", names |-> <<>>, patterns |-> <<>>, result |-> <<>>]

\* the client ids seen by the WebSocket channel: "a" is on the allowlist, "b"
\* is not, "ws-1" and "ws-2" are the ids given to an auth without client_id
ClientIds == {"a", "b", "ws-1", "ws-2"}
AllowFrom == {"a"}

\* a connection just accepted: client_id = None, nothing received
NoConnection == [at |-> "new", client_id |-> NoneStr, first |-> NoneStr]

\* stream_chat not called yet: the response of chat(), the deltas still to be
\* yielded, the accumulators of the stream loop, and what the turn ended with
NoFallback ==
    [at |-> "none", response |-> LLMResponse(NoneStr, <<>>, NoneStr, "stop"),
     deltas |-> <<>>, parts |-> <<>>, pending |-> <<>>, finish_reason |-> NoneStr,
     content |-> NoneStr, calls |-> <<>>]

\* an invocation of _process_message or process_sse that has not begun: its
\* position, its message, the contexts its tool calls acted on, its provider
\* turns, whether the other invocation was under way when it began
NoConc == [at |-> "idle", req |-> NoRequest, acted |-> <<>>, turns |-> 0,
           overlapped |-> FALSE]

\* the context of the tools before any set_context call
NoContext == [channel |-> "", chat_id |-> ""]

NoProgress ==
    [queue |-> <<>>, task |-> "none", at |-> "none", result |-> "",
     tool_name |-> "",
     enqueued |-> <<>>,   \* every event the tool put, in order (observation)
     call_at |-> 0,       \* the position of the call's tool_call event
     channel |-> "none",  \* tool_instance._progress_queue: none, or the queue
     yielded |-> <<>>]    \* the items the helper yielded, in order

(* ------------------------------- Init ---------------------------------- *)

Init ==
    /\ max_iterations \in 0..MaxIterations
    /\ sessions = [k \in SessionKeys |-> <<>>]
    /\ outbound = <<>>
    /\ pc = "idle"
    /\ req = NoRequest
    /\ iteration = 0
    /\ messages = <<>>
    /\ todo = <<>>
    /\ final_content = NoneStr
    /\ turn_msg_id = NoMessageId
    /\ pending_tool_calls = <<>>
    /\ accumulated_content = <<>>
    /\ finish_reason = NoneStr
    /\ ctx = InitCtx
    /\ events = <<>>
    /\ progress = NoProgress
    /\ tools = DefaultTools
    /\ exec_log = <<>>
    /\ tool_context = NoContext
    /\ match_call = NoMatchCall
    /\ stream_log = NoStream
    \* run() has not been called, stop() neither (stopped, after_stop: observations)
    /\ run_loop = [at |-> "start", running |-> FALSE, inbound |-> <<>>,
                   msg |-> NoRequest, published |-> 0,
                   stopped |-> FALSE, after_stop |-> 0]
    \* an empty registry, auto_register_all not called (deps, before, first:
    \* the arguments and results of the calls, observations)
    /\ auto_reg = [registry |-> <<>>, calls |-> 0, deps |-> <<>>,
                   before |-> <<>>, first |-> <<>>]
    /\ fallback = NoFallback
    /\ ws = [clients |-> [id \in ClientIds |-> 0],
             conns |-> [c \in Invocations |-> NoConnection],
             bus |-> <<>>, sent |-> <<>>, frames |-> 0]
    /\ conc = [tool_context |-> NoContext,
               sessions |-> [k \in SessionKeys |-> <<>>],
               inv |-> [i \in Invocations |-> NoConc]]
    /\ shared = [instance |-> NoInstanceState,
                 inv |-> [i \in Invocations |-> NoInvocation]]
    \* nothing printed or read; _read_interactive_input not called
    /\ console = [log |-> <<>>, reads |-> 0, exited |-> FALSE, call |-> "none",
                  typed |-> NoneStr, returned |-> NoneStr]
    /\ obs = InitObs

\* set_context(channel, chat_id) on the message, spawn and cron tools
set_context(channel, chat_id) == [channel |-> channel, chat_id |-> chat_id]

\* (variant for C1: the loop guard off by one)
loop_continues_off_by_one(it, max) == it <= max

\* while iteration < self.max_iterations
loop_continues(it, max) == it < max

\* where the loop goes from its head: another cycle, or past the loop
LoopHead(it) == IF loop_continues(it, max_iterations) THEN "loop" ELSE "finish"

CanStart == pc \in {"idle", "done", "closed"} /\ obs.env < MaxEnv

\* a new invocation starts with fresh locals
FreshLocals ==
    /\ iteration' = 0
    /\ todo' = <<>>
    /\ final_content' = NoneStr
    /\ turn_msg_id' = NoMessageId
    /\ pending_tool_calls' = <<>>
    /\ accumulated_content' = <<>>
    /\ finish_reason' = NoneStr
    /\ progress' = NoProgress
    /\ outbound' = <<>>

(* ------------- agent/loop.py: the bus and direct entry points ---------- *)

\* OutboundMessage; metadata defaults to the empty mapping
OutboundMessage(channel, chat_id, content, type) ==
    [channel |-> channel, chat_id |-> chat_id, content |-> content, type |-> type,
     metadata |-> {}]

\* (variant for C14: the chat_id is split at its last colon)
parse_origin_last_colon(segs) ==
    IF Len(segs) > 1
    THEN [channel |-> JoinColon(SubSeq(segs, 1, Len(segs) - 1)), chat_id |-> Last(segs)]
    ELSE [channel |-> "cli", chat_id |-> Head(segs)]

\* _process_system_message: the origin parsed from chat_id, split at the
\* first colon only; without a colon the channel falls back to cli
parse_origin(segs) ==
    IF Len(segs) > 1
    THEN [channel |-> Head(segs), chat_id |-> JoinColon(Tail(segs))]
    ELSE [channel |-> "cli", chat_id |-> Head(segs)]

\* where an invocation replies and which session it uses
Route(msg) ==
    IF msg.entry = "sse"
    THEN [channel |-> "sse", chat_id |-> JoinColon(msg.chat_segs),
          key |-> "sse:" \o JoinColon(msg.chat_segs)]
    ELSE IF msg.channel = "system"
    THEN LET o == parse_origin(msg.chat_segs)
         IN [channel |-> o.channel, chat_id |-> o.chat_id,
             key |-> o.channel \o ":" \o o.chat_id]
    ELSE [channel |-> msg.channel, chat_id |-> JoinColon(msg.chat_segs),
          key |-> session_key(msg)]

\* the user entry saved to the session
user_entry(msg) ==
    IF msg.channel = "system"
    THEN "[System: " \o msg.sender_id \o "] " \o msg.content
    ELSE msg.content

\* if final_content is None: the fixed sentinel of the entry point
default_content(msg, fc) ==
    IF fc # NoneStr THEN fc
    ELSE IF msg.channel = "system" THEN SystemSentinel ELSE Sentinel

\* (variant for C33: the user entry is saved when the provider raises)
on_raise_saves_user(history, user_text) == add_message(history, "user", user_text)

\* the exception leaves the loop before any session.add_message: the except
\* clauses of run() and process_sse do not touch the session
on_raise(history, user_text) == history

\* (variant for C16: the tool exchange is persisted with the pair)
save_pair_with_tool(history, user_text, assistant_text) ==
    add_message(add_message(add_message(history, "user", user_text),
                            "tool", "ok"), "assistant", assistant_text)

\* (variant for C18: the pair is put in front of the history)
save_pair_in_front(history, user_text, assistant_text) ==
    << [role |-> "user", content |-> user_text],
       [role |-> "assistant", content |-> assistant_text] >> \o history

\* session.add_message("user", ...); session.add_message("assistant", ...)
save_pair(history, user_text, assistant_text) ==
    add_message(add_message(history, "user", user_text), "assistant", assistant_text)

\* (variant for C4: the calls are taken from the end)
next_call_last(calls) == Last(calls)

\* the for loop over the tool calls of a turn: the call it takes next
next_call(calls) == Head(calls)

\* _process_message / _process_system_message up to the reason-act loop
ProcessMessage(msg) ==
    /\ CanStart
    /\ req' = msg
    /\ messages' = build_messages(sessions[Route(msg).key], msg.content)
    /\ obs' = StartObs(Route(msg).key)
    /\ pc' = LoopHead(0)
    /\ FreshLocals
    /\ ctx' = InitCtx
    /\ events' = <<>>
    /\ tool_context' = set_context(Route(msg).channel, Route(msg).chat_id)
    /\ UNCHANGED <<max_iterations, sessions, tools, exec_log, match_call,
                   stream_log, sideVars>>

\* run(): an inbound message is consumed and processed
Run == \E msg \in BusInbound : ProcessMessage(msg)

\* process_direct(): the message is synthesized and processed
ProcessDirect == \E msg \in DirectCalls : ProcessMessage(msg)

\* one provider.chat turn of _process_message / _process_system_message
Chat ==
    /\ pc = "loop"
    /\ req.entry \in {"bus", "direct"}
    /\ \E resp \in ChatResponses(MaxEnv - obs.env) :
        /\ iteration' = iteration + 1
        /\ obs' = [obs EXCEPT !.provider_calls = @ + 1,
                              !.env = @ + Len(resp.tool_calls),
                              !.tool_turns = @ + (IF has_tool_calls(resp) THEN 1 ELSE 0),
                              !.error_turn = IF resp.finish_reason = "error"
                                             THEN obs.provider_calls + 1 ELSE @]
        /\ IF has_tool_calls(resp)
           THEN /\ messages' = add_assistant_message(messages, resp.content, resp.tool_calls)
                /\ todo' = resp.tool_calls
                /\ pc' = "tools"
                /\ UNCHANGED final_content
           ELSE /\ final_content' = resp.content
                /\ pc' = "finish"
                /\ UNCHANGED <<messages, todo>>
    /\ UNCHANGED <<max_iterations, sessions, outbound, req, turn_msg_id,
                   streamVars, sseVars, progress, regVars>>

\* the exceptions _process_message may raise, by their message
Exceptions == {"boom"}

\* (variant for C11: the error reply is addressed to the parsed origin)
error_reply_to_origin(msg, e) ==
    OutboundMessage(Route(msg).channel, Route(msg).chat_id,
                    "Sorry, I encountered an error: " \o e, "reply")

\* run(), except Exception as e: the error reply, to msg.channel and msg.chat_id
error_reply(msg, e) ==
    OutboundMessage(msg.channel, JoinColon(msg.chat_segs),
                    "Sorry, I encountered an error: " \o e, "reply")

\* the provider raises: run() answers with the error reply, process_direct
\* lets the exception through
ChatRaise ==
    /\ pc = "loop"
    /\ req.entry \in {"bus", "direct"}
    /\ iteration' = iteration + 1
    /\ obs' = [obs EXCEPT !.provider_calls = @ + 1, !.raised = TRUE,
                          !.errors = @ + (IF req.entry = "bus" THEN 1 ELSE 0)]
    /\ \E e \in Exceptions :
        outbound' = IF req.entry = "bus" THEN Append(outbound, error_reply(req, e))
                    ELSE outbound
    /\ sessions' = [sessions EXCEPT ![Route(req).key] = on_raise(@, user_entry(req))]
    /\ pc' = "done"
    /\ UNCHANGED <<max_iterations, req, messages, todo, final_content,
                   turn_msg_id, streamVars, sseVars, progress, regVars>>

\* (variant for C21: the loop ends after the last call of a turn)
after_call_breaks(calls) == IF Tail(calls) = <<>> THEN "finish" ELSE "tools"

\* after a tool call's result: the next call, or the head of the loop
AfterCall(calls) == IF Tail(calls) = <<>> THEN LoopHead(iteration) ELSE "tools"

\* one tool call of the turn: notify, dispatch, append the tool result
ExecTool ==
    /\ pc = "tools"
    /\ req.entry \in {"bus", "direct"}
    /\ \E b \in LoopBehaviours :
        LET tc == next_call(todo)
            r == execute(tools, tc.name, b)
        IN /\ outbound' = Append(outbound,
                    OutboundMessage(Route(req).channel, Route(req).chat_id,
                                    tc.name, "tool"))
           /\ messages' = add_tool_result(messages, tc.id, r.result)
           /\ todo' = Tail(todo)
           /\ pc' = AfterCall(todo)
           /\ obs' = [obs EXCEPT !.dispatched = @ + 1]
    /\ UNCHANGED <<max_iterations, sessions, req, iteration, final_content,
                   turn_msg_id, streamVars, sseVars, progress, regVars>>

\* (variant for C17: the response is not published)
publish_response_dropped(out, response) == out

\* run(): if response: await self.bus.publish_outbound(response)
publish_response(out, response) == Append(out, response)

\* the OutboundMessage returned: _process_message passes msg.metadata on,
\* _process_system_message does not
response(msg, fc) ==
    IF msg.channel = "system"
    THEN OutboundMessage(Route(msg).channel, Route(msg).chat_id, fc, "reply")
    ELSE [OutboundMessage(msg.channel, JoinColon(msg.chat_segs), fc, "reply")
            EXCEPT !.metadata = msg.metadata]

\* (variant for C27: the reply is delivered whatever the payload says)
cron_delivery_always(out, job, reply) ==
    Append(out, OutboundMessage(job.payload.channel, job.payload.to, reply, "reply"))

\* on_cron_job after process_direct returned: if job.payload.deliver and
\* job.payload.to, the reply is published to (channel or "whatsapp", to)
cron_delivery(out, job, reply) ==
    IF job.payload.deliver /\ job.payload.to # ""
    THEN Append(out, OutboundMessage(
            IF job.payload.channel # "" THEN job.payload.channel ELSE "whatsapp",
            job.payload.to, reply, "reply"))
    ELSE out

\* after the loop: the sentinel, the session update, the reply
FinishMessage ==
    /\ pc = "finish"
    /\ req.entry \in {"bus", "direct"}
    /\ LET fc == default_content(req, final_content)
           rt == Route(req)
       IN /\ final_content' = fc
          /\ sessions' = [sessions EXCEPT
                ![rt.key] = save_pair(@, user_entry(req), fc)]
          /\ outbound' =
                IF req.entry = "bus"
                THEN publish_response(outbound, response(req, fc))
                ELSE IF req.session_key_arg = "cron:j1"
                THEN cron_delivery(outbound, req, fc)
                ELSE outbound
          /\ obs' = [obs EXCEPT !.completed[rt.key] = @ + 1]
    /\ pc' = "done"
    /\ UNCHANGED <<max_iterations, req, iteration, messages, todo, turn_msg_id,
                   streamVars, sseVars, progress, regVars>>

(* ---------------- sse/handler.py and process_sse ---------------------- *)

Em == [ctx |-> ctx, events |-> events]

\* _extract_last_user_message: the text of the last message of role user
RECURSIVE extract_last_user_message(_)
extract_last_user_message(msgs) ==
    IF msgs = <<>> THEN ""
    ELSE IF Last(msgs).role = "user" THEN Last(msgs).content
    ELSE extract_last_user_message(SubSeq(msgs, 1, Len(msgs) - 1))

\* (variant for C6: the error path forgets the done event)
sse_except_no_done(em, error) == emit_error(em, error)

\* except Exception in process_sse: the error event, then done
sse_except(em, error) == emit_done(emit_error(em, error))

\* (variant for C36: a rejected request is answered with done alone)
validate_agent_type_silent(em, agent_type) == emit_done(em)

\* handle, step 3: a workflow or unknown agent_type yields error, then done
validate_agent_type(em, agent_type) ==
    emit_done(emit_error(em,
        IF agent_type = "workflow"
        THEN "workflow agent type is not yet implemented"
        ELSE "unknown agent_type: " \o agent_type))

\* SSEHandler.handle rejects the agent_type: error, done, return
HandleReject ==
    /\ CanStart
    /\ \E r \in SseRequests :
        /\ r.agent_type # "agent"
        /\ req' = r
        /\ LET em == [ctx |-> InitCtx, events |-> <<>>]
               out == validate_agent_type(em, r.agent_type)
           IN /\ ctx' = out.ctx
              /\ events' = out.events
        /\ obs' = [StartObs(Route(r).key) EXCEPT !.rejected = TRUE]
    /\ messages' = <<>>
    /\ pc' = "done"
    /\ FreshLocals
    /\ UNCHANGED <<max_iterations, sessions, regVars>>

\* SSEHandler.handle delegates to process_sse, which runs up to the loop
Handle ==
    /\ CanStart
    /\ \E r \in SseRequests :
        /\ r.agent_type = "agent"
        /\ req' = r
        /\ messages' = build_messages(sessions[Route(r).key], r.content)
        /\ obs' = StartObs(Route(r).key)
    /\ ctx' = InitCtx
    /\ events' = <<>>
    /\ FreshLocals
    /\ pc' = LoopHead(0)
    /\ UNCHANGED <<max_iterations, sessions, regVars>>

\* the provider raises inside process_sse (chat, or stream_chat between deltas)
SseRaise ==
    /\ req.entry = "sse"
    /\ \/ pc = "loop" /\ ~req.stream
       \/ pc = "stream"
    /\ iteration' = IF pc = "loop" THEN iteration + 1 ELSE iteration
    /\ obs' = [obs EXCEPT !.provider_calls = IF pc = "loop" THEN @ + 1 ELSE @,
                          !.raised = TRUE]
    /\ LET out == sse_except(Em, "boom")
       IN ctx' = out.ctx /\ events' = out.events
    /\ sessions' = [sessions EXCEPT ![Route(req).key] = on_raise(@, user_entry(req))]
    /\ pc' = "done"
    /\ UNCHANGED <<max_iterations, outbound, req, messages, todo,
                   final_content, turn_msg_id, streamVars, progress, regVars>>

\* (variant for C38: the thinking is shown whatever the request asked)
thinking_shown_always(thinking, enable_thinking) == thinking # NoneStr

\* if delta.thinking_delta and ctx.enable_thinking (stream);
\* if response.reasoning_content and ctx.enable_thinking (non-stream)
thinking_shown(thinking, enable_thinking) == thinking # NoneStr /\ enable_thinking

(* ---------------------- _sse_non_stream_loop --------------------------- *)

\* one provider.chat turn: the turn's message id, the thought, the tool calls
NonStreamChat ==
    /\ pc = "loop"
    /\ req.entry = "sse" /\ ~req.stream
    /\ \E resp \in ChatResponses(MaxEnv - obs.env) :
        LET it == iteration + 1
            c1 == new_message_id(ctx, it)
            mid == c1.current_message_id
            em1 == [ctx |-> c1, events |-> events]
            em2 == IF thinking_shown(resp.reasoning_content, req.enable_thinking)
                   THEN emit_thinking_complete(em1, resp.reasoning_content, mid, it)
                   ELSE em1
        IN /\ iteration' = it
           /\ turn_msg_id' = mid
           /\ ctx' = em2.ctx
           /\ events' = em2.events
           /\ obs' = [obs EXCEPT !.provider_calls = @ + 1,
                                 !.env = @ + Len(resp.tool_calls),
                                 !.tool_turns = @ + (IF has_tool_calls(resp) THEN 1 ELSE 0),
                              !.error_turn = IF resp.finish_reason = "error"
                                             THEN obs.provider_calls + 1 ELSE @]
           /\ IF has_tool_calls(resp)
              THEN /\ messages' = add_assistant_message(messages, resp.content,
                                                        resp.tool_calls)
                   /\ todo' = resp.tool_calls
                   /\ pc' = "tools"
                   /\ UNCHANGED final_content
              ELSE /\ final_content' = resp.content
                   /\ pc' = "finish"
                   /\ UNCHANGED <<messages, todo>>
    /\ UNCHANGED <<max_iterations, sessions, outbound, req, streamVars,
                   progress, regVars>>

\* the cycle the text after the loop belongs to: the last one when the loop
\* ended by break, none (0) when the iterations ran out
final_cycle == IF obs.tool_turns < iteration THEN iteration ELSE 0

\* the id of the final text event of the non-stream loop
final_message_id(c, cyc) == new_message_id(c, cyc)

\* after the loop: the sentinel, the complete text, the session update; then
\* process_sse yields done
NonStreamFinish ==
    /\ pc = "finish"
    /\ req.entry = "sse" /\ ~req.stream
    /\ LET fc == default_content(req, final_content)
           c1 == final_message_id(ctx, final_cycle)
           em1 == emit_text_complete([ctx |-> c1, events |-> events], fc,
                                     c1.current_message_id, final_cycle)
           em2 == emit_done(em1)
           key == Route(req).key
       IN /\ final_content' = fc
          /\ ctx' = em2.ctx
          /\ events' = em2.events
          /\ sessions' = [sessions EXCEPT
                ![key] = save_pair(@, extract_last_user_message(messages), fc)]
          /\ obs' = [obs EXCEPT !.completed[key] = @ + 1]
    /\ pc' = "done"
    /\ UNCHANGED <<max_iterations, outbound, req, iteration, messages, todo,
                   turn_msg_id, streamVars, progress, regVars>>

\* a tool has a progress channel: hasattr(tool_instance, "_progress_queue")
has_progress_queue(name) == name = ProgressTool

\* result or ""
or_empty(result) == IF result = NoneStr THEN "" ELSE result

\* one tool call of an SSE turn, for a tool without a progress channel:
\* the tool_call event, the dispatch, the tool_result event, the tool message
SseExecTool ==
    /\ pc = "tools"
    /\ req.entry = "sse"
    /\ LET tc == next_call(todo)
       IN /\ ~(tc.name \in tools /\ has_progress_queue(tc.name))
          /\ \E b \in LoopBehaviours :
                LET r == execute(tools, tc.name, b)
                    em1 == emit_tool_call(Em, tc.name, turn_msg_id, iteration)
                    em2 == emit_tool_result(em1, or_empty(r.result), turn_msg_id,
                                            iteration)
                IN /\ ctx' = em2.ctx
                   /\ events' = em2.events
                   /\ messages' = add_tool_result(messages, tc.id, or_empty(r.result))
          /\ todo' = Tail(todo)
          /\ pc' = AfterCall(todo)
          /\ obs' = [obs EXCEPT !.dispatched = @ + 1]
    /\ UNCHANGED <<max_iterations, sessions, outbound, req, iteration,
                   final_content, turn_msg_id, streamVars, progress, regVars>>

(* ------------------------ _sse_stream_loop ----------------------------- *)

\* the tool-call fragments a provider may stream: index, id, name, arguments
Fragment(index, id, name, args) ==
    [index |-> index, id |-> id, name |-> name, args |-> args]
Fragments ==
    { Fragment(0, "t1", PlainTool, NoneStr),
      Fragment(1, "t2", ProgressTool, NoneStr),
      Fragment(0, NoneStr, NoneStr, "{}") }

\* a delta's field is set and not empty (Python truthiness of str | None)
Truthy(x) == x # NoneStr /\ x # ""

\* (variant for C20: an arguments fragment replaces the parts so far)
accumulate_overwrite(p, d) ==
    LET p0 == IF d.index \in DOMAIN p THEN p
              ELSE p @@ (d.index :> [id |-> or_empty(d.id), name |-> or_empty(d.name),
                                     arguments_parts |-> <<>>])
        tc == p0[d.index]
    IN [p0 EXCEPT ![d.index] =
            [id |-> IF Truthy(d.id) THEN d.id ELSE tc.id,
             name |-> IF Truthy(d.name) THEN d.name ELSE tc.name,
             arguments_parts |-> IF Truthy(d.args) THEN <<d.args>>
                                 ELSE tc.arguments_parts]]

\* the accumulator of tool-call fragments after one more fragment
accumulate(p, d) ==
    LET p0 == IF d.index \in DOMAIN p THEN p
              ELSE p @@ (d.index :> [id |-> or_empty(d.id), name |-> or_empty(d.name),
                                     arguments_parts |-> <<>>])
        tc == p0[d.index]
    IN [p0 EXCEPT ![d.index] =
            [id |-> IF Truthy(d.id) THEN d.id ELSE tc.id,
             name |-> IF Truthy(d.name) THEN d.name ELSE tc.name,
             arguments_parts |-> IF Truthy(d.args)
                                 THEN Append(tc.arguments_parts, d.args)
                                 ELSE tc.arguments_parts]]

\* the indices of the accumulator in the order the calls are built
RECURSIVE sorted_indices(_)
sorted_indices(S) ==
    IF S = {} THEN <<>>
    ELSE LET m == CHOOSE x \in S : \A y \in S : x <= y
         IN <<m>> \o sorted_indices(S \ {m})

\* tool_call_dicts: for _idx, tc in sorted(pending_tool_calls.items())
tool_call_dicts(p) ==
    LET order == sorted_indices(DOMAIN p)
    IN [k \in 1..Len(order) |->
            [id |-> p[order[k]].id, name |-> p[order[k]].name,
             arguments |-> Join(p[order[k]].arguments_parts)]]

\* "".join(accumulated_content) or None
full_content(parts) == IF Join(parts) = "" THEN NoneStr ELSE Join(parts)

\* the head of a cycle: the turn's message id is minted, stream_chat is called
StreamOpen ==
    /\ pc = "loop"
    /\ req.entry = "sse" /\ req.stream
    /\ iteration' = iteration + 1
    /\ ctx' = new_message_id(ctx, iteration + 1)
    /\ turn_msg_id' = ctx'.current_message_id
    /\ pending_tool_calls' = <<>>
    /\ accumulated_content' = <<>>
    /\ finish_reason' = NoneStr
    /\ obs' = [obs EXCEPT !.provider_calls = @ + 1]
    /\ pc' = "stream"
    /\ UNCHANGED <<max_iterations, sessions, outbound, req, messages, todo,
                   final_content, events, progress, regVars>>

\* a thinking delta
StreamThinking ==
    /\ pc = "stream"
    /\ obs.env < MaxEnv
    /\ LET out == IF thinking_shown("why", req.enable_thinking)
                  THEN emit_thinking_delta(Em, "why", turn_msg_id, iteration)
                  ELSE Em
       IN ctx' = out.ctx /\ events' = out.events
    /\ obs' = [obs EXCEPT !.env = @ + 1]
    /\ UNCHANGED <<max_iterations, sessions, outbound, pc, req, loopVars,
                   streamVars, progress, regVars>>

\* a text content delta
StreamContent ==
    /\ pc = "stream"
    /\ obs.env < MaxEnv
    /\ accumulated_content' = Append(accumulated_content, "hi")
    /\ LET out == emit_text_delta(Em, "hi", turn_msg_id, iteration)
       IN ctx' = out.ctx /\ events' = out.events
    /\ obs' = [obs EXCEPT !.env = @ + 1]
    /\ UNCHANGED <<max_iterations, sessions, outbound, pc, req, loopVars,
                   pending_tool_calls, finish_reason, progress, regVars>>

\* a tool-call fragment
StreamToolCall ==
    /\ pc = "stream"
    /\ obs.env < MaxEnv
    /\ \E d \in Fragments : pending_tool_calls' = accumulate(pending_tool_calls, d)
    /\ obs' = [obs EXCEPT !.env = @ + 1]
    /\ UNCHANGED <<max_iterations, sessions, outbound, pc, req, loopVars,
                   accumulated_content, finish_reason, sseVars, progress, regVars>>

\* the stream ends (its last delta may carry a finish_reason); tool calls were
\* accumulated: the assistant message, then the calls
StreamEndTools ==
    /\ pc = "stream"
    /\ DOMAIN pending_tool_calls # {}
    /\ \E fr \in {"tool_calls", "error"} : finish_reason' = fr
    /\ messages' = add_assistant_message(messages, full_content(accumulated_content),
                                         tool_call_dicts(pending_tool_calls))
    /\ todo' = tool_call_dicts(pending_tool_calls)
    /\ obs' = [obs EXCEPT !.tool_turns = @ + 1,
                          !.error_turn = IF finish_reason' = "error"
                                         THEN obs.provider_calls ELSE @]
    /\ pc' = "tools"
    /\ UNCHANGED <<max_iterations, sessions, outbound, req, iteration,
                   final_content, turn_msg_id, pending_tool_calls,
                   accumulated_content, sseVars, progress, regVars>>

\* the stream ends without tool calls: the session is saved when there is
\* text, the loop breaks and process_sse yields done
StreamEndFinal ==
    /\ pc = "stream"
    /\ DOMAIN pending_tool_calls = {}
    /\ \E fr \in {"stop", "error"} : finish_reason' = fr
    /\ LET fc == full_content(accumulated_content)
           key == Route(req).key
           out == emit_done(Em)
       IN /\ sessions' =
                IF fc # NoneStr
                THEN [sessions EXCEPT
                        ![key] = save_pair(@, extract_last_user_message(messages), fc)]
                ELSE sessions
          /\ final_content' = fc
          /\ ctx' = out.ctx
          /\ events' = out.events
          /\ obs' = [obs EXCEPT !.completed[key] = @ + 1,
                                !.error_turn = IF finish_reason' = "error"
                                               THEN obs.provider_calls ELSE @]
    /\ pc' = "done"
    /\ UNCHANGED <<max_iterations, outbound, req, iteration, messages, todo,
                   turn_msg_id, pending_tool_calls, accumulated_content,
                   progress, regVars>>

\* the iterations ran out: the loop ends and process_sse yields done
StreamExhausted ==
    /\ pc = "finish"
    /\ req.entry = "sse" /\ req.stream
    /\ LET out == emit_done(Em)
       IN ctx' = out.ctx /\ events' = out.events
    /\ obs' = [obs EXCEPT !.completed[Route(req).key] = @ + 1]
    /\ pc' = "done"
    /\ UNCHANGED <<max_iterations, sessions, outbound, req, loopVars, streamVars,
                   progress, regVars>>

(* ---------------------- _execute_with_progress ------------------------- *)

\* the events a tool may put on its progress queue
ProgressEvent(type, payload) == [type |-> type, payload |-> payload]
ProgressEvents ==
    { ProgressEvent("step", "step1"), ProgressEvent("step", "step2"),
      ProgressEvent("html_delta", ""),       \* empty content
      ProgressEvent("image", "malformed") }  \* files the message body rejects

\* _progress_event_to_sse raises on this event (SSEMessageBody validation)
conversion_raises(event) ==
    event.type \in {"image", "file", "video"} /\ event.payload = "malformed"

\* _progress_event_to_sse returns an SSE string for this event (else None)
converts(event) ==
    \/ event.type = "step"
    \/ event.type = "html_delta" /\ event.payload # ""
    \/ event.type \in {"image", "file", "video"} /\ event.payload # ""

\* _progress_event_to_sse, for an event whose conversion does not raise
progress_event_to_sse(em, event, mid, cyc) ==
    IF event.type = "step" THEN emit_progress(em, event.payload, mid, cyc)
    ELSE IF event.type = "html_delta" /\ event.payload # ""
    THEN emit_html_delta(em, event.payload, mid, cyc)
    ELSE IF event.type \in {"image", "file", "video"} /\ event.payload # ""
    THEN emit_files(em, event.type, mid, cyc)
    ELSE em

\* while not exec_task.done(): where the drain goes after one round
drain_position(task) == IF task = "done" THEN "rest" ELSE "wait"

\* the items _execute_with_progress yields: (True, sse_str), (False, result)
SseItem(sse_str) == [is_sse |-> TRUE, value |-> sse_str]
ResultItem(result) == [is_sse |-> FALSE, value |-> result]

\* (variant for C23: the finally clause leaves the channel in place)
helper_finally_keeps(p) == p

\* finally: tool_instance._progress_queue = None
helper_finally(p) == [p EXCEPT !.channel = "none"]

\* the caller's part after the (False, result) item: the tool_result event,
\* the tool message, the next call
YieldResult(em, result) ==
    LET out == emit_tool_result(em, or_empty(result), turn_msg_id, iteration)
    IN /\ ctx' = out.ctx
       /\ events' = out.events
       /\ messages' = add_tool_result(messages, next_call(todo).id, or_empty(result))
       /\ todo' = Tail(todo)
       /\ pc' = AfterCall(todo)

\* a tool call of an SSE turn for a tool with a progress channel: the
\* tool_call event, a fresh queue, the background task
StartProgress ==
    /\ pc = "tools"
    /\ req.entry = "sse"
    /\ LET tc == next_call(todo)
           out == emit_tool_call(Em, tc.name, turn_msg_id, iteration)
       IN /\ tc.name \in tools /\ has_progress_queue(tc.name)
          /\ ctx' = out.ctx
          /\ events' = out.events
          /\ progress' = [queue |-> <<>>, task |-> "running", at |-> "wait",
                          result |-> "", tool_name |-> tc.name, enqueued |-> <<>>,
                          call_at |-> Len(out.events), channel |-> "queue",
                          yielded |-> <<>>]
    /\ pc' = "progress"
    /\ obs' = [obs EXCEPT !.dispatched = @ + 1]
    /\ UNCHANGED <<max_iterations, sessions, outbound, req, loopVars, streamVars,
                   regVars>>

\* the tool, running in the background task, puts an event on its queue
ToolPut ==
    /\ pc = "progress"
    /\ progress.task = "running"
    /\ obs.env < MaxEnv
    /\ \E e \in ProgressEvents :
        progress' = [progress EXCEPT !.queue = Append(@, e),
                                     !.enqueued = Append(@, e)]
    /\ obs' = [obs EXCEPT !.env = @ + 1]
    /\ UNCHANGED <<max_iterations, sessions, outbound, pc, req, loopVars,
                   streamVars, sseVars, regVars>>

\* the background task ends: registry.execute returned
ToolReturn ==
    /\ pc = "progress"
    /\ progress.task = "running"
    /\ \E b \in LoopBehaviours :
        progress' = [progress EXCEPT
            !.task = "done",
            !.result = execute(tools, progress.tool_name, b).result]
    /\ UNCHANGED <<max_iterations, sessions, outbound, pc, req, loopVars,
                   streamVars, sseVars, regVars, obs>>

\* the drain takes the next event: wait_for(queue.get()) while the task runs,
\* get_nowait() after it is done; the event is converted and yielded
Drain ==
    /\ pc = "progress"
    /\ progress.queue # <<>>
    /\ ~conversion_raises(Head(progress.queue))
    /\ LET out == progress_event_to_sse(Em, Head(progress.queue), turn_msg_id,
                                        iteration)
       IN ctx' = out.ctx /\ events' = out.events
    /\ progress' = [progress EXCEPT
            !.queue = Tail(@),
            !.at = IF @ = "rest" THEN "rest" ELSE drain_position(progress.task),
            !.yielded = IF converts(Head(progress.queue))
                        THEN Append(@, SseItem(Last(events').data)) ELSE @]
    /\ UNCHANGED <<max_iterations, sessions, outbound, pc, req, loopVars,
                   streamVars, regVars, obs>>

\* wait_for times out on an empty queue and the loop sees the task done
DrainTimeout ==
    /\ pc = "progress"
    /\ progress.at = "wait"
    /\ progress.queue = <<>>
    /\ progress.task = "done"
    /\ progress' = [progress EXCEPT !.at = "rest"]
    /\ UNCHANGED <<max_iterations, sessions, outbound, pc, req, loopVars,
                   streamVars, sseVars, regVars, obs>>

\* converting the next event raises: the task is cancelled when not done and
\* the result is the error string
DrainRaise ==
    /\ pc = "progress"
    /\ progress.queue # <<>>
    /\ conversion_raises(Head(progress.queue))
    /\ progress' = helper_finally([progress EXCEPT
            !.queue = Tail(@),
            !.task = IF @ = "done" THEN "done" ELSE "cancelled",
            !.result = ErrorExecuting(progress.tool_name, "invalid files"),
            !.yielded = Append(@, ResultItem(
                            ErrorExecuting(progress.tool_name, "invalid files")))])
    /\ YieldResult(Em, ErrorExecuting(progress.tool_name, "invalid files"))
    /\ UNCHANGED <<max_iterations, sessions, outbound, req, iteration,
                   final_content, turn_msg_id, streamVars, regVars, obs>>

\* (variant for C9: the queue is not drained once the task is done)
rest_drained_skipped(queue) == TRUE

\* while not queue.empty(): the drain after the task is done has ended
rest_drained(queue) == queue = <<>>

\* the queue is drained after the task is done: result = await exec_task
ProgressResult ==
    /\ pc = "progress"
    /\ progress.at = "rest"
    /\ rest_drained(progress.queue)
    /\ YieldResult(Em, progress.result)
    /\ progress' = helper_finally([progress EXCEPT
            !.yielded = Append(@, ResultItem(progress.result))])
    /\ UNCHANGED <<max_iterations, sessions, outbound, req, iteration,
                   final_content, turn_msg_id, streamVars, regVars, obs>>

\* the consumer of the SSE stream stops iterating while the helper runs: the
\* generators are closed (GeneratorExit or CancelledError, neither caught by
\* except Exception); only the finally clause of the helper runs
Disconnect ==
    /\ pc = "progress"
    /\ progress' = helper_finally(progress)
    /\ pc' = "closed"
    /\ UNCHANGED <<max_iterations, sessions, outbound, req, loopVars, streamVars,
                   sseVars, regVars, obs>>

(* -------- _match_patterns and _get_filtered_tool_definitions ----------- *)

\* Names and patterns are kept as their characters: <<"a", "*">> is "a*".
Range(s) == {s[i] : i \in 1..Len(s)}

\* fnmatch.fnmatch(name, pat) on a case-sensitive platform: * any run, ? one
\* character, [seq] and [!seq] a character class (a ] right after the opening
\* bracket or the ! is a member), a [ that is never closed is literal
RECURSIVE fnmatch(_, _)
fnmatch(name, pat) ==
    IF pat = <<>> THEN name = <<>>
    ELSE IF Head(pat) = "*"
    THEN fnmatch(name, Tail(pat)) \/ (name # <<>> /\ fnmatch(Tail(name), pat))
    ELSE IF Head(pat) = "?"
    THEN name # <<>> /\ fnmatch(Tail(name), Tail(pat))
    ELSE IF Head(pat) = "["
    THEN LET rest == Tail(pat)
             s1 == IF rest # <<>> /\ rest[1] = "!" THEN 2 ELSE 1
             s2 == IF s1 <= Len(rest) /\ rest[s1] = "]" THEN s1 + 1 ELSE s1
             closers == {j \in s2..Len(rest) : rest[j] = "]"}
         IN IF closers = {}
            THEN name # <<>> /\ Head(name) = "[" /\ fnmatch(Tail(name), rest)
            ELSE LET j == CHOOSE x \in closers : \A y \in closers : x <= y
                     stuff == SubSeq(rest, 1, j - 1)
                     negated == stuff[1] = "!"
                     members == IF negated THEN Range(Tail(stuff)) ELSE Range(stuff)
                 IN /\ name # <<>>
                    /\ (Head(name) \in members) # negated
                    /\ fnmatch(Tail(name), SubSeq(rest, j + 1, Len(rest)))
    ELSE name # <<>> /\ Head(name) = Head(pat) /\ fnmatch(Tail(name), Tail(pat))

\* for name in names: for pat in patterns: if fnmatch: if name not in seen
RECURSIVE match_loop(_, _, _)
match_loop(names, patterns, matched) ==
    IF names = <<>> THEN matched
    ELSE LET name == Head(names)
             hit == \E i \in 1..Len(patterns) : fnmatch(name, patterns[i])
         IN match_loop(Tail(names), patterns,
                       IF hit /\ name \notin Range(matched)
                       THEN Append(matched, name) ELSE matched)

\* if not patterns or patterns == ["*"]
all_patterns(patterns) == patterns = <<>> \/ patterns = << <<"*">> >>

\* (variant for C19: a name is appended each time it matches)
match_patterns_no_seen(names, patterns) ==
    IF all_patterns(patterns) THEN names
    ELSE SelectSeq(names, LAMBDA n : \E i \in 1..Len(patterns) : fnmatch(n, patterns[i]))

\* _match_patterns(names, patterns)
match_patterns(names, patterns) ==
    IF all_patterns(patterns) THEN names ELSE match_loop(names, patterns, <<>>)

\* x if x else None, for a list
or_none(list) == IF list = <<>> THEN NoneStr ELSE list

\* _get_filtered_tool_definitions(tool_list), all_defs given by their names
get_filtered_tool_definitions(all_defs, tool_list) ==
    IF all_patterns(tool_list) THEN or_none(all_defs)
    ELSE LET allowed == Range(match_patterns(all_defs, tool_list))
         IN or_none(SelectSeq(all_defs, LAMBDA d : d \in allowed))

\* the characters of a tool's name, and get_definitions() in registration order
ToolChars(name) ==
    CASE name = PlainTool -> <<"c", "l", "o", "c", "k">>
      [] name = ProgressTool -> <<"e", "d", "u", "_", "d", "o", "c">>
      [] OTHER -> <<"n", "o", "p", "e">>
get_definitions(tl) ==
    SelectSeq(<<ToolChars(PlainTool), ToolChars(ProgressTool)>>,
              LAMBDA d : \E n \in tl : ToolChars(n) = d)

\* process_sse step 2: the definitions handed to every provider call of the
\* request
tools_defs == get_filtered_tool_definitions(get_definitions(tools), req.tool_list)

\* the names and patterns the two functions are applied to
MatchNames == { <<"a">>, <<"a", "b">>, <<"b">>, <<"[">> }
MatchPatterns ==
    { <<"*">>, <<"a", "*">>, <<"?">>, <<"a">>, <<"*", "b">>,
      <<"[", "a", "]">>, <<"[", "!", "a", "]">>, <<"[">> }

\* the registry's definitions: registered names, each once (dict keys)
Definitions ==
    { s \in SeqsUpTo(MatchNames, MaxNames) : \A i, j \in 1..Len(s) : s[i] = s[j] => i = j }

\* _match_patterns is called (a pure function: one call per behaviour)
MatchPatternsCall ==
    /\ match_call = NoMatchCall
    /\ \E names \in SeqsUpTo(MatchNames, MaxNames),
          patterns \in SeqsUpTo(MatchPatterns, MaxPatterns) :
        match_call' = [via |-> "match_patterns", names |-> names,
                       patterns |-> patterns,
                       result |-> match_patterns(names, patterns)]
    /\ UNCHANGED <<max_iterations, sessions, outbound, pc, req, loopVars,
                   streamVars, sseVars, progress, tools, exec_log, tool_context,
                   stream_log, sideVars, obs>>

\* _get_filtered_tool_definitions is called (process_sse, step 2)
FilteredDefinitionsCall ==
    /\ match_call = NoMatchCall
    /\ \E all_defs \in Definitions,
          tool_list \in SeqsUpTo(MatchPatterns, MaxPatterns) :
        match_call' = [via |-> "tool_definitions", names |-> all_defs,
                       patterns |-> tool_list,
                       result |-> get_filtered_tool_definitions(all_defs, tool_list)]
    /\ UNCHANGED <<max_iterations, sessions, outbound, pc, req, loopVars,
                   streamVars, sseVars, progress, tools, exec_log, tool_context,
                   stream_log, sideVars, obs>>

NextMatch ==
    \/ MatchPatternsCall
    \/ FilteredDefinitionsCall

SpecMatch == Init /\ [][NextMatch]_vars

(* ------- _sse_stream_loop: one turn's tool-call fragments on their own -- *)

\* the argument fragments of a stream: two halves of {"a":1}
ArgsHead == "{\"a\":"
ArgsTail == "1}"

\* the texts json.loads accepts among the concatenations of the fragments, and
\* the mappings it returns (a mapping is its set of items)
JsonTexts == {"{\"a\":1}"}
json_value(text) == {<<"a", 1>>}

\* json.loads(text): the mapping, or JSONDecodeError raised
json_loads(text) ==
    IF text \in JsonTexts THEN [raised |-> FALSE, value |-> json_value(text)]
    ELSE [raised |-> TRUE, value |-> {}]

\* tc_args = json.loads(tc_args_str) if tc_args_str else {}, {} on JSONDecodeError
tool_args(tc_args_str) ==
    IF tc_args_str = "" THEN {}
    ELSE LET r == json_loads(tc_args_str)
         IN IF r.raised THEN {} ELSE r.value

\* the fragments of the turn: any index, id, name and arguments piece
StreamFragments ==
    { Fragment(index, id, name, args) :
        index \in {0, 1}, id \in {NoneStr, "t1", "t2"},
        name \in {NoneStr, PlainTool}, args \in {NoneStr, ArgsHead, ArgsTail} }

\* a delta with a tool_call_index arrives
FeedFragment ==
    /\ pc = "idle"
    /\ stream_log.calls = <<>>
    /\ Len(stream_log.fed) < MaxFragments
    /\ \E d \in StreamFragments :
        /\ pending_tool_calls' = accumulate(pending_tool_calls, d)
        /\ stream_log' = [stream_log EXCEPT !.fed = Append(@, d)]
    /\ UNCHANGED <<max_iterations, sessions, outbound, pc, req, loopVars,
                   accumulated_content, finish_reason, sseVars, progress, tools,
                   exec_log, tool_context, match_call, sideVars, obs>>

\* the stream ended with tool calls pending: the calls are built in sorted
\* order and each is dispatched with its parsed arguments
BuildCalls ==
    /\ pc = "idle"
    /\ stream_log.calls = <<>>
    /\ DOMAIN pending_tool_calls # {}
    /\ todo' = tool_call_dicts(pending_tool_calls)
    /\ stream_log' = [stream_log EXCEPT !.calls =
            [k \in 1..Len(todo') |->
                [id |-> todo'[k].id, name |-> todo'[k].name,
                 tc_args |-> tool_args(todo'[k].arguments)]]]
    /\ UNCHANGED <<max_iterations, sessions, outbound, pc, req, iteration, messages,
                   final_content, turn_msg_id, streamVars, sseVars, progress, tools,
                   exec_log, tool_context, match_call, sideVars, obs>>

NextStream ==
    \/ FeedFragment
    \/ BuildCalls

SpecStream == Init /\ [][NextStream]_vars

(* ------------------ run() and stop() on their own ---------------------- *)

\* (variant for C24: the loop does not test the flag)
while_running_ignored(running) == TRUE

\* while self._running
while_running(running) == running

\* one step of run(): the flag is set, the flag is tested, wait_for returns a
\* message or times out on an empty queue, the message is processed and the
\* response or the error reply is published
RunStep ==
    /\ run_loop.at # "exited"
    /\ \/ /\ run_loop.at = "start"
          /\ run_loop' = [run_loop EXCEPT !.running = TRUE, !.at = "check"]
          /\ UNCHANGED outbound
       \/ /\ run_loop.at = "check"
          /\ run_loop' = [run_loop EXCEPT
                !.at = IF while_running(run_loop.running) THEN "wait" ELSE "exited"]
          /\ UNCHANGED outbound
       \/ /\ run_loop.at = "wait"
          /\ run_loop' =
                IF run_loop.inbound # <<>>
                THEN [run_loop EXCEPT
                        !.msg = Head(run_loop.inbound), !.inbound = Tail(@),
                        !.at = "process",
                        !.after_stop = @ + (IF run_loop.stopped THEN 1 ELSE 0)]
                ELSE [run_loop EXCEPT !.at = "check"]
          /\ UNCHANGED outbound
       \/ /\ run_loop.at = "process"
          /\ \/ outbound' = publish_response(outbound,
                    OutboundMessage(Route(run_loop.msg).channel,
                                    Route(run_loop.msg).chat_id, "hi", "reply"))
             \/ \E e \in Exceptions :
                    outbound' = Append(outbound, error_reply(run_loop.msg, e))
          /\ run_loop' = [run_loop EXCEPT !.at = "check"]
    /\ UNCHANGED <<coreVars, auto_reg, console, shared, conc, fallback, ws>>

\* stop() is called; stopped records a call made while run() is executing
Stop ==
    /\ run_loop' = [run_loop EXCEPT
            !.running = FALSE,
            !.stopped = @ \/ run_loop.at \in {"check", "wait", "process"}]
    /\ UNCHANGED <<coreVars, outbound, auto_reg, console, shared, conc, fallback, ws>>

\* a channel publishes an inbound message to the bus
PublishInbound ==
    /\ run_loop.published < MaxInbound
    /\ \E m \in BusInbound :
        run_loop' = [run_loop EXCEPT !.inbound = Append(@, m), !.published = @ + 1]
    /\ UNCHANGED <<coreVars, outbound, auto_reg, console, shared, conc, fallback, ws>>

NextRun ==
    \/ RunStep
    \/ Stop
    \/ PublishInbound

\* run() keeps being scheduled, and the calls it awaits return
SpecRun == Init /\ [][NextRun]_vars /\ WF_vars(RunStep)

(* ---------------- ToolRegistry.auto_register_all ----------------------- *)

\* The Tool subclasses _all_subclasses(Tool) finds, in its order. declares
\* tells whether AUTO_REGISTER_DEPS is not None and required is its dependency
\* keys; name_fget tells whether cls.name.fget(cls) returns the name or raises
\* (a name computed from instance state); ctor whether cls(**kwargs) succeeds.
ToolClass(cls, name, name_fget, declares, required, ctor) ==
    [cls |-> cls, name |-> name, name_fget |-> name_fget, declares |-> declares,
     required |-> required, ctor |-> ctor]
ToolClasses ==
    << ToolClass("FindTool", "find", "returns", FALSE, {}, "ok"),
       ToolClass("EduDocTool", "edu_doc", "returns", TRUE,
                 {"provider", "oss_service"}, "ok"),
       ToolClass("EduSVGTool", "edu_svg", "returns", TRUE, {"provider"}, "ok"),
       ToolClass("BrokenTool", "broken", "returns", TRUE, {}, "raises"),
       ToolClass("NamedTool", "named", "raises", TRUE, {"provider"}, "ok") >>

\* the deps dictionaries: a key is absent, None, or a value
DepsChoices == [{"provider", "oss_service"} -> {"absent", "none", "value"}]

\* an instance in the registry: its class and the call that constructed it
Instance(cls, call) == [cls |-> cls, call |-> call]

\* if tool_name and tool_name in self._tools
already_registered(c, registry) ==
    c.name_fget = "returns" /\ c.name \in DOMAIN registry

\* self._tools[tool.name] = tool
register(registry, name, instance) ==
    [n \in DOMAIN registry \cup {name} |->
        IF n = name THEN instance ELSE registry[n]]

\* the for loop of auto_register_all over the classes, call number `call`
RECURSIVE auto_register_all(_, _, _, _)
auto_register_all(registry, classes, deps, call) ==
    IF classes = <<>> THEN registry
    ELSE LET c == Head(classes)
             missing == {k \in c.required : deps[k] # "value"}
             skip == \/ ~c.declares
                     \/ already_registered(c, registry)
                     \/ missing # {}
                     \/ c.ctor = "raises"
         IN auto_register_all(
                IF skip THEN registry
                ELSE register(registry, c.name, Instance(c.cls, call)),
                Tail(classes), deps, call)

\* register(tool), called by hand before auto_register_all
ManualRegister ==
    /\ auto_reg.calls = 0
    /\ \E name \in {"find", "edu_doc", "named"} :
        /\ name \notin DOMAIN auto_reg.registry
        /\ auto_reg' = [auto_reg EXCEPT
                !.registry = register(@, name, Instance("manual", 0))]
    /\ UNCHANGED <<coreVars, outbound, run_loop, console, shared, conc, fallback, ws>>

\* auto_register_all(deps): a first call, then a second with the same deps
AutoRegisterAll ==
    /\ auto_reg.calls < 2
    /\ \E deps \in DepsChoices :
        /\ auto_reg.calls = 1 => deps = auto_reg.deps
        /\ LET after == auto_register_all(auto_reg.registry, ToolClasses, deps,
                                          auto_reg.calls + 1)
           IN auto_reg' = [registry |-> after, calls |-> auto_reg.calls + 1,
                           deps |-> deps,
                           before |-> IF auto_reg.calls = 0 THEN auto_reg.registry
                                      ELSE auto_reg.before,
                           first |-> IF auto_reg.calls = 0 THEN after
                                     ELSE auto_reg.first]
    /\ UNCHANGED <<coreVars, outbound, run_loop, console, shared, conc, fallback, ws>>

NextAuto ==
    \/ ManualRegister
    \/ AutoRegisterAll

SpecAuto == Init /\ [][NextAuto]_vars

(* --------------- cli/commands.py: the interactive prompt --------------- *)

\* the names nanobot.cli.commands defines or imports at module level
CommandsNames ==
    { "asyncio", "Path", "typer", "Console", "Table", "__version__", "__logo__",
      "app", "console", "version_callback", "main", "onboard",
      "_create_workspace_templates", "gateway", "sse", "agent", "channels_app",
      "channels_status", "_get_bridge_dir", "channels_login", "cron_app",
      "cron_list", "cron_add", "cron_remove", "cron_enable", "cron_run",
      "plugin_app", "marketplace_app", "marketplace_add", "marketplace_list",
      "marketplace_remove", "status" }

InteractivePrompt == "[bold blue]You:[/bold blue] "

\* what the user types at the prompt; a line that strips to nothing is skipped
InteractiveLines == {"", "  ", "hi", "bye"}
stripped_empty(line) == line \in {"", "  "}

\* one round of run_interactive: console.input(prompt) returns a line or is
\* interrupted; a non-blank line is answered through process_direct and the
\* response printed
RunInteractive ==
    /\ ~console.exited
    /\ console.reads < MaxReads
    /\ \/ \E line \in InteractiveLines :
            console' = [console EXCEPT
                !.reads = @ + 1,
                !.log = @ \o <<[op |-> "console.input", text |-> InteractivePrompt,
                                line |-> line]>>
                          \o (IF stripped_empty(line) THEN <<>>
                              ELSE <<[op |-> "console.print", text |-> "hi",
                                      line |-> ""]>>)]
       \/ console' = [console EXCEPT
                !.exited = TRUE,
                !.log = Append(@, [op |-> "console.print", text |-> "Goodbye!",
                                   line |-> ""])]
    /\ UNCHANGED <<coreVars, outbound, run_loop, auto_reg, shared, conc, fallback, ws>>

\* commands._read_interactive_input() is called while the user is about to type
\* a line (the test replaces console.print and input and makes the call): the
\* attribute is looked up on the module, which does not define it, so the
\* lookup raises before anything is printed or read
ReadInteractiveInput ==
    /\ console.call = "none"
    /\ "_read_interactive_input" \notin CommandsNames
    /\ \E line \in InteractiveLines :
            console' = [console EXCEPT !.call = "AttributeError", !.typed = line]
    /\ UNCHANGED <<coreVars, outbound, run_loop, auto_reg, shared, conc, fallback, ws>>

NextInput ==
    \/ RunInteractive
    \/ ReadInteractiveInput

SpecInput == Init /\ [][NextInput]_vars

(* ------ _execute_with_progress: two requests, one tool instance -------- *)

\* queue = asyncio.Queue(); tool_instance._progress_queue = queue; the ids;
\* exec_task = asyncio.create_task(...): no await in between
SharedInstall == \E i \in Invocations :
    /\ shared.inv[i].at = "idle"
    /\ shared' = [shared EXCEPT
            !.instance = [queue |-> i, session_id |-> CtxOf(i).session_id,
                          request_id |-> CtxOf(i).request_id],
            !.inv[i].at = "drain",
            !.inv[i].task = "scheduled"]
    /\ UNCHANGED <<coreVars, outbound, run_loop, auto_reg, console, conc, fallback, ws>>

\* the background task gets its first step: the tool's execute reads the ids
\* and the channel from its instance
SharedToolBegin == \E i \in Invocations :
    /\ shared.inv[i].task = "scheduled"
    /\ shared' = [shared EXCEPT !.inv[i].task = "running",
                                !.inv[i].seen = shared.instance]
    /\ UNCHANGED <<coreVars, outbound, run_loop, auto_reg, console, conc, fallback, ws>>

\* the tool reports an event: on the channel it read when it began or on the
\* one its instance holds now; with no channel the event goes nowhere
SharedToolPut == \E i \in Invocations :
    /\ shared.inv[i].task = "running"
    /\ shared.inv[i].puts < MaxPuts
    /\ \E q \in {shared.inv[i].seen.queue, shared.instance.queue} :
        LET event == [by |-> i, n |-> shared.inv[i].puts + 1]
            put == [shared EXCEPT !.inv[i].puts = @ + 1]
        IN shared' = IF q = 0 THEN [put EXCEPT !.inv[i].dropped = @ + 1]
                     ELSE [put EXCEPT !.inv[q].queue = Append(@, event)]
    /\ UNCHANGED <<coreVars, outbound, run_loop, auto_reg, console, conc, fallback, ws>>

\* the tool's execute returns
SharedToolDone == \E i \in Invocations :
    /\ shared.inv[i].task = "running"
    /\ shared' = [shared EXCEPT !.inv[i].task = "done"]
    /\ UNCHANGED <<coreVars, outbound, run_loop, auto_reg, console, conc, fallback, ws>>

\* the helper takes an event from the queue it created and yields it
SharedDrain == \E i \in Invocations :
    /\ shared.inv[i].at = "drain"
    /\ shared.inv[i].queue # <<>>
    /\ shared' = [shared EXCEPT
            !.inv[i].queue = Tail(@),
            !.inv[i].yielded = Append(@, Head(shared.inv[i].queue))]
    /\ UNCHANGED <<coreVars, outbound, run_loop, auto_reg, console, conc, fallback, ws>>

\* the task is done and the queue empty: the result is yielded, and
\* finally: tool_instance._progress_queue = None
SharedFinally == \E i \in Invocations :
    /\ shared.inv[i].at = "drain"
    /\ shared.inv[i].task = "done"
    /\ shared.inv[i].queue = <<>>
    /\ shared' = [shared EXCEPT !.inv[i].at = "done", !.instance.queue = 0]
    /\ UNCHANGED <<coreVars, outbound, run_loop, auto_reg, console, conc, fallback, ws>>

NextShared ==
    \/ SharedInstall
    \/ SharedToolBegin
    \/ SharedToolPut
    \/ SharedToolDone
    \/ SharedDrain
    \/ SharedFinally

SpecShared == Init /\ [][NextShared]_vars

(* ------- two invocations on one agent loop, interleaved at awaits ------- *)

\* gateway: run() processes one bus message at a time, while the cron and
\* heartbeat callbacks call process_direct from their own tasks; the SSE app
\* serves each request in its own coroutine. Invocation 1 is the bus message
\* or an SSE request, invocation 2 a direct call or an SSE request.
ConcUser(i) == IF i = 1 THEN "hello1" ELSE "hello2"
ConcFinal(i) == IF i = 1 THEN "hi1" ELSE "hi2"
ConcRequests(i) ==
    { [r EXCEPT !.content = ConcUser(i)] :
        r \in IF i = 1
              THEN { Inbound("bus", "cli", "user", <<"c1">>, "hello"),
                     Inbound("bus", "cli", "user", <<"direct">>, "hello"),
                     SseRequest(TRUE, FALSE, "agent"),
                     SseRequest(FALSE, FALSE, "agent") }
              ELSE { Direct("heartbeat"), Direct("cron:j1"),
                     SseRequest(TRUE, FALSE, "agent"),
                     SseRequest(FALSE, FALSE, "agent") } }

\* (variant for C34: the user entry is added when the invocation begins)
begin_history_adds_user(history, user_text) == add_message(history, "user", user_text)

\* session = self.sessions.get_or_create(key): nothing is added before the loop
begin_history(history, user_text) == history

\* the invocation begins and runs to its first await (provider.chat):
\* _process_message sets the context of the message, spawn and cron tools,
\* process_sse does not
ConcBegin == \E i \in Invocations : \E r \in ConcRequests(i) :
    /\ conc.inv[i].at = "idle"
    /\ conc' = [conc EXCEPT
            !.tool_context = IF r.entry = "sse" THEN @
                             ELSE set_context(Route(r).channel, Route(r).chat_id),
            !.sessions[Route(r).key] = begin_history(@, r.content),
            !.inv[i] = [NoConc EXCEPT
                !.at = "chat", !.req = r,
                !.overlapped = conc.inv[Other(i)].at \notin {"idle", "done"}]]
    /\ UNCHANGED <<coreVars, outbound, run_loop, auto_reg, console, shared, fallback, ws>>

\* the provider answers: a tool call, or the final text
ConcChat == \E i \in Invocations :
    /\ conc.inv[i].at = "chat"
    /\ \/ /\ conc.inv[i].turns < MaxIterations
          /\ conc' = [conc EXCEPT !.inv[i].at = "tools", !.inv[i].turns = @ + 1]
       \/ conc' = [conc EXCEPT !.inv[i].at = "finish"]
    /\ UNCHANGED <<coreVars, outbound, run_loop, auto_reg, console, shared, fallback, ws>>

\* the call goes to a tool that keeps a context (message, spawn, cron): it acts
\* on the (channel, chat_id) its instance holds when it is executed
ConcExecTool == \E i \in Invocations :
    /\ conc.inv[i].at = "tools"
    /\ conc' = [conc EXCEPT !.inv[i].acted = Append(@, conc.tool_context),
                            !.inv[i].at = "chat"]
    /\ UNCHANGED <<coreVars, outbound, run_loop, auto_reg, console, shared, fallback, ws>>

\* after the loop: the two add_message calls and the save, with no await in
\* between, on the session object of the key
ConcFinish == \E i \in Invocations :
    /\ conc.inv[i].at = "finish"
    /\ conc' = [conc EXCEPT
            !.sessions[Route(conc.inv[i].req).key] =
                save_pair(@, conc.inv[i].req.content, ConcFinal(i)),
            !.inv[i].at = "done"]
    /\ UNCHANGED <<coreVars, outbound, run_loop, auto_reg, console, shared, fallback, ws>>

NextConc ==
    \/ ConcBegin
    \/ ConcChat
    \/ ConcExecTool
    \/ ConcFinish

SpecConc == Init /\ [][NextConc]_vars

(* ---- providers/base.py: the default stream_chat, and its consumer ------ *)

\* StreamDelta: a field that is not set is None; fragment holds the tool-call
\* fields of a delta whose tool_call_index is set
StreamDelta(thinking_delta, content_delta, fragment, fr) ==
    [thinking_delta |-> thinking_delta, content_delta |-> content_delta,
     fragment |-> fragment, finish_reason |-> fr]

\* LLMProvider.stream_chat: the deltas yielded for the response of chat()
stream_chat(resp) ==
    (IF Truthy(resp.reasoning_content)
     THEN <<StreamDelta(resp.reasoning_content, NoneStr, <<>>, NoneStr)>>
     ELSE <<>>)
    \o (IF Truthy(resp.content)
        THEN <<StreamDelta(NoneStr, resp.content, <<>>, NoneStr)>> ELSE <<>>)
    \o [k \in 1..Len(resp.tool_calls) |->
            StreamDelta(NoneStr, NoneStr,
                        <<Fragment(0, resp.tool_calls[k].id,
                                   resp.tool_calls[k].name,
                                   resp.tool_calls[k].arguments)>>, NoneStr)]
    \o <<StreamDelta(NoneStr, NoneStr, <<>>, resp.finish_reason)>>

\* the responses chat() may give
FallbackResponses ==
    { LLMResponse(c, tcs, r, IF tcs = <<>> THEN "stop" ELSE "tool_calls") :
        c \in {NoneStr, "hi"}, tcs \in SeqsUpTo(ToolCalls, MaxCalls),
        r \in {NoneStr, "why"} }

\* resp = await self.chat(...)
FallbackChat ==
    /\ fallback.at = "none"
    /\ \E resp \in FallbackResponses :
        fallback' = [NoFallback EXCEPT !.at = "stream", !.response = resp,
                                       !.deltas = stream_chat(resp)]
    /\ UNCHANGED <<coreVars, outbound, run_loop, auto_reg, console, shared, conc, ws>>

\* async for delta in self.provider.stream_chat(...): the body of the loop
FallbackFeed ==
    /\ fallback.at = "stream"
    /\ fallback.deltas # <<>>
    /\ LET delta == Head(fallback.deltas)
       IN fallback' = [fallback EXCEPT
            !.deltas = Tail(@),
            !.parts = IF Truthy(delta.content_delta)
                      THEN Append(@, delta.content_delta) ELSE @,
            !.pending = IF delta.fragment # <<>>
                        THEN accumulate(@, delta.fragment[1]) ELSE @,
            !.finish_reason = IF Truthy(delta.finish_reason)
                              THEN delta.finish_reason ELSE @]
    /\ UNCHANGED <<coreVars, outbound, run_loop, auto_reg, console, shared, conc, ws>>

\* the end of the turn: full_content and the tool_call_dicts
FallbackEnd ==
    /\ fallback.at = "stream"
    /\ fallback.deltas = <<>>
    /\ fallback' = [fallback EXCEPT
            !.at = "end",
            !.content = full_content(fallback.parts),
            !.calls = tool_call_dicts(fallback.pending)]
    /\ UNCHANGED <<coreVars, outbound, run_loop, auto_reg, console, shared, conc, ws>>

NextFallback ==
    \/ FallbackChat
    \/ FallbackFeed
    \/ FallbackEnd

SpecFallback == Init /\ [][NextFallback]_vars

(* ------------------ channels/websocket.py ------------------------------ *)

\* BaseChannel.is_allowed: the sender is on the configured allowlist
is_allowed(client_id) == client_id \in AllowFrom

\* the first frame a connection may send: an auth with or without client_id,
\* another JSON message, or text that is not JSON
AuthMsg(type, client_id) == [type |-> type, client_id |-> client_id]
FirstFrames ==
    { AuthMsg("auth", id) : id \in {"a", "b", NoneStr} }
    \cup { AuthMsg("message", "a"), AuthMsg("invalid json", NoneStr) }

\* (variant for C39: any first message is taken as the authentication)
auth_check_skipped(auth_data) == auth_data.type # "invalid json"

\* auth_data = json.loads(auth_msg); auth_data.get("type") == "auth"
auth_check(auth_data) == auth_data.type = "auth"

\* finally: if client_id: pop it from _clients and _client_chat_ids
cleanup(clients, client_id) ==
    IF client_id # NoneStr THEN [clients EXCEPT ![client_id] = 0] ELSE clients

\* _handle_connection up to the message loop: the first frame arrives within
\* the 30 s window; the connection is registered, or the handler returns (or
\* raises on invalid JSON) and its finally clause runs
WsAuthenticate == \E c \in Invocations : \E auth_data \in FirstFrames :
    /\ ws.conns[c].at = "new"
    /\ LET client_id == IF auth_data.client_id # NoneStr THEN auth_data.client_id
                        ELSE IF c = 1 THEN "ws-1" ELSE "ws-2"
       IN IF ~auth_check(auth_data)
          THEN ws' = [ws EXCEPT
                    !.conns[c] = [at |-> "closed", client_id |-> NoneStr,
                                  first |-> auth_data.type]]
          ELSE IF ~is_allowed(client_id)
          THEN ws' = [ws EXCEPT
                    !.clients = cleanup(@, client_id),
                    !.conns[c] = [at |-> "closed", client_id |-> client_id,
                                  first |-> auth_data.type]]
          ELSE ws' = [ws EXCEPT
                    !.clients[client_id] = c,
                    !.conns[c] = [at |-> "open", client_id |-> client_id,
                                  first |-> auth_data.type]]
    /\ UNCHANGED <<coreVars, outbound, run_loop, auto_reg, console, shared, conc,
                   fallback>>

\* nothing arrives within 30 s: TimeoutError, the finally clause with
\* client_id = None
WsAuthTimeout == \E c \in Invocations :
    /\ ws.conns[c].at = "new"
    /\ ws' = [ws EXCEPT !.conns[c] = [at |-> "closed", client_id |-> NoneStr,
                                      first |-> "timeout"]]
    /\ UNCHANGED <<coreVars, outbound, run_loop, auto_reg, console, shared, conc,
                   fallback>>

\* async for message in websocket: a frame of an authenticated connection; a
\* message with content is forwarded to the bus, anything else is not
WsMessage == \E c \in Invocations : \E type \in {"message", "empty", "ping"} :
    /\ ws.conns[c].at = "open"
    /\ ws.frames < MaxFrames
    /\ ws' = [ws EXCEPT
            !.frames = @ + 1,
            !.bus = IF type = "message" /\ is_allowed(ws.conns[c].client_id)
                    THEN Append(@, [conn |-> c, sender_id |-> ws.conns[c].client_id,
                                    chat_id |-> ws.conns[c].client_id])
                    ELSE @]
    /\ UNCHANGED <<coreVars, outbound, run_loop, auto_reg, console, shared, conc,
                   fallback>>

\* the connection of an authenticated client closes: the finally clause
WsClose == \E c \in Invocations :
    /\ ws.conns[c].at = "open"
    /\ ws' = [ws EXCEPT !.clients = cleanup(@, ws.conns[c].client_id),
                        !.conns[c].at = "closed"]
    /\ UNCHANGED <<coreVars, outbound, run_loop, auto_reg, console, shared, conc,
                   fallback>>

\* send(msg): the client registered for msg.chat_id gets the message; with
\* none registered the message is dropped with a warning
WsSend == \E chat_id \in ClientIds :
    /\ Len(ws.sent) < MaxFrames
    /\ ws' = [ws EXCEPT !.sent = Append(@, [chat_id |-> chat_id,
                                            conn |-> ws.clients[chat_id]])]
    /\ UNCHANGED <<coreVars, outbound, run_loop, auto_reg, console, shared, conc,
                   fallback>>

NextWs ==
    \/ WsAuthenticate
    \/ WsAuthTimeout
    \/ WsMessage
    \/ WsClose
    \/ WsSend

SpecWs == Init /\ [][NextWs]_vars

(* ------------------ the registry on its own ---------------------------- *)

\* ToolRegistry.register / unregister
Register == \E name \in ToolNames :
    /\ tools' = tools \cup {name}
    /\ UNCHANGED <<max_iterations, sessions, outbound, pc, req, loopVars,
                   streamVars, sseVars, progress, exec_log, tool_context, match_call,
                   stream_log, sideVars, obs>>

Unregister == \E name \in ToolNames :
    /\ tools' = tools \ {name}
    /\ UNCHANGED <<max_iterations, sessions, outbound, pc, req, loopVars,
                   streamVars, sseVars, progress, exec_log, tool_context, match_call,
                   stream_log, sideVars, obs>>

\* ToolRegistry.execute called with any name, on a tool of any behaviour
RegistryExecute == \E name \in ToolNames, b \in Behaviours :
    /\ exec_log' = <<[name |-> name, behaviour |-> b, registered |-> name \in tools,
                      out |-> execute(tools, name, b)]>>
    /\ UNCHANGED <<max_iterations, sessions, outbound, pc, req, loopVars,
                   streamVars, sseVars, progress, tools, tool_context, match_call,
                   stream_log, sideVars, obs>>

NextRegistry ==
    \/ Register
    \/ Unregister
    \/ RegistryExecute

SpecRegistry == Init /\ [][NextRegistry]_vars

Next ==
    \/ Run
    \/ ProcessDirect
    \/ Chat
    \/ ChatRaise
    \/ ExecTool
    \/ FinishMessage
    \/ HandleReject
    \/ Handle
    \/ SseRaise
    \/ NonStreamChat
    \/ NonStreamFinish
    \/ SseExecTool
    \/ StreamOpen
    \/ StreamThinking
    \/ StreamContent
    \/ StreamToolCall
    \/ StreamEndTools
    \/ StreamEndFinal
    \/ StreamExhausted
    \/ StartProgress
    \/ ToolPut
    \/ ToolReturn
    \/ Drain
    \/ DrainTimeout
    \/ DrainRaise
    \/ ProgressResult
    \/ Disconnect

Spec == Init /\ [][Next]_vars

(* ============================== claims ================================== *)

Positions(s) == 1..Len(s)

SseDone == pc = "done" /\ req.entry = "sse"
Key == Route(req).key

(* C1: no invocation of any entry point calls the provider more than
   max_iterations times; with max_iterations = 0 it is never called. *)
C1_IterationBound == obs.provider_calls <= max_iterations

\* an invocation used its whole budget of two or more provider calls
C1_Witness ==
    /\ pc = "done"
    /\ max_iterations >= 2
    /\ obs.provider_calls = max_iterations

(* C2 (as claimed): when every one of the max_iterations provider turns
   returned a tool call, the final assistant text is the sentinel and the
   session gained the user message followed by the sentinel, for the bus and
   direct entry points and for process_sse in stream and non-stream mode. *)
C2_SentinelOnExhaustion ==
    ( /\ pc = "done"
      /\ max_iterations >= 1
      /\ req.channel # "system"
      /\ ~obs.raised /\ ~obs.rejected
      /\ obs.provider_calls = max_iterations
      /\ obs.tool_turns = max_iterations )
    => /\ final_content = Sentinel
       /\ sessions[Key] = save_pair(obs.before, req.content, Sentinel)

(* C3 (as claimed): after n requests on a session were processed to completion
   without an exception, through any entry point, its history has exactly 2n
   entries, alternating user then assistant. *)
C3_HistoryPairs ==
    \A k \in SessionKeys :
        /\ Len(sessions[k]) = 2 * obs.completed[k]
        /\ \A i \in Positions(sessions[k]) :
            sessions[k][i].role = IF i % 2 = 1 THEN "user" ELSE "assistant"

(* C4: the tool results of an assistant message follow it in the wire list in
   the order of its calls, each carrying its call's id, and all of them are
   there before the next provider call; a tool is dispatched only after the
   previous call's result was appended; in stream mode the calls are in
   ascending index order. *)
ToolMessages == {p \in Positions(messages) : messages[p].role = "tool"}

\* the k-th smallest index of the stream accumulator
KthIndex(k) ==
    CHOOSE x \in DOMAIN pending_tool_calls :
        Cardinality({y \in DOMAIN pending_tool_calls : y < x}) = k - 1

C4_ToolResultsFollowCalls ==
    /\ \A p \in Positions(messages) :
        LET calls == messages[p].tool_calls
        IN messages[p].role = "assistant" =>
            \A j \in Positions(calls) :
                /\ p + j <= Len(messages) =>
                    /\ messages[p + j].role = "tool"
                    /\ messages[p + j].tool_call_id = calls[j].id
                /\ pc \in {"loop", "stream", "finish", "done"} => p + j <= Len(messages)
    /\ obs.dispatched = Cardinality(ToolMessages)
                        + (IF pc \in {"progress", "closed"} THEN 1 ELSE 0)
    /\ (req.stream /\ pc \in {"tools", "progress"}) =>
        LET calls == Last(SelectSeq(messages, LAMBDA m : m.role = "assistant")).tool_calls
        IN /\ Len(calls) = Cardinality(DOMAIN pending_tool_calls)
           /\ \A k \in Positions(calls) : calls[k].id = pending_tool_calls[KthIndex(k)].id

\* a streamed turn with two calls got both results, in the order of the calls
C4_Witness ==
    /\ req.stream
    /\ pc = "loop"
    /\ \E p \in Positions(messages) :
        /\ messages[p].role = "assistant"
        /\ Len(messages[p].tool_calls) = 2
        /\ messages[p].tool_calls[1].id = "t1"
        /\ messages[p].tool_calls[2].id = "t2"
        /\ p + 2 = Len(messages)

(* C5: the k-th event emitted for a request carries message_order k, from 1,
   without gap or reuse, on every path (deltas, tool calls, progress events
   also when some are dropped, tool results, the error path, done). *)
C5_MessageOrder ==
    /\ \A k \in Positions(events) : events[k].message_order = k
    /\ ctx.message_order = Len(events)

\* a finished request in which a progress event was emitted and one dropped
C5_Witness ==
    /\ SseDone
    /\ \E k \in Positions(events) : events[k].via = "emit_progress"
    /\ \E i \in Positions(progress.enqueued) : ~converts(progress.enqueued[i])

(* C6: a sequence of SSEHandler.handle that ran to its end holds exactly one
   done event; it has status completed and is the last one; when processing
   raised or the agent_type was rejected, the event before it is an error
   event. *)
DoneEvents == {k \in Positions(events) : events[k].message_type = "done"}

C6_DoneLast ==
    /\ (req.entry = "sse" /\ pc # "done") => DoneEvents = {}
    /\ SseDone =>
        /\ DoneEvents = {Len(events)}
        /\ Last(events).status = "completed"
        /\ (obs.raised \/ obs.rejected) =>
            /\ Len(events) >= 2
            /\ events[Len(events) - 1].message_type = "error"

\* the provider raised after events of a cycle had been emitted
C6_Witness ==
    /\ SseDone
    /\ obs.raised
    /\ Len(events) >= 4

(* C7 (as claimed): in both SSE modes a fresh message_id is minted exactly once
   per reason-act cycle and every event of the cycle, the final text of the
   last cycle included, carries it. *)
C7_OneIdPerCycle ==
    (req.entry = "sse" /\ ~obs.raised) =>
        /\ \A c \in 1..iteration :
            Cardinality({i \in Positions(ctx.minted) : ctx.minted[i] = c}) = 1
        /\ \A i, j \in Positions(events) :
            (events[i].cycle > 0 /\ events[i].cycle = events[j].cycle)
                => events[i].message_id = events[j].message_id

(* C8: the events of one SSE response that carry a given message_id form one
   contiguous block (minted ids being pairwise distinct). *)
C8_IdsContiguous ==
    \A i, k \in Positions(events) :
        (i < k /\ events[i].message_id = events[k].message_id) =>
            \A j \in i..k : events[j].message_id = events[i].message_id

\* a finished response with the events of two cycles and of the final text
C8_Witness ==
    /\ SseDone
    /\ \E i, j \in Positions(events) :
        /\ i + 1 < j
        /\ events[i].message_id # events[i + 1].message_id
        /\ events[i + 1].message_id # events[j].message_id
        /\ events[j].message_type = "done"

(* The events of the last call made through _execute_with_progress: the
   tool_call event is at progress.call_at, the progress events follow it. *)
CallEnded == progress.task \in {"done", "cancelled"} /\ pc \notin {"progress", "closed"}
AfterCallAt == (progress.call_at + 1)..Len(events)
ResultAt ==
    CHOOSE k \in AfterCallAt :
        /\ events[k].message_type = "tool_result"
        /\ \A j \in AfterCallAt : j < k => events[j].message_type # "tool_result"
Emitted ==
    IF CallEnded THEN SubSeq(events, progress.call_at + 1, ResultAt - 1)
    ELSE SubSeq(events, progress.call_at + 1, Len(events))
Shown(s) == [i \in Positions(s) |-> <<s[i].via, s[i].message_type, s[i].data>>]

\* what the conversion of a sequence of queue events emits
RECURSIVE Converted(_)
Converted(s) ==
    IF s = <<>> THEN <<>>
    ELSE Shown(progress_event_to_sse([ctx |-> InitCtx, events |-> <<>>], Head(s),
                                     1, 1).events) \o Converted(Tail(s))

\* the events put before the first one whose conversion raises
RECURSIVE UpToRaise(_)
UpToRaise(s) ==
    IF s = <<>> \/ conversion_raises(Head(s)) THEN <<>>
    ELSE <<Head(s)>> \o UpToRaise(Tail(s))

IsPrefix(s, t) == Len(s) <= Len(t) /\ s = SubSeq(t, 1, Len(s))

(* C9 (as claimed): every progress event the tool enqueued before its execute
   returned is emitted between the call's tool_call and tool_result events,
   in the order enqueued; none is lost. *)
C9_EveryEventEmitted ==
    CallEnded =>
        /\ Len(Emitted) = Len(progress.enqueued)
        /\ \A i \in Positions(Emitted) :
            Shown(<<Emitted[i]>>) = Converted(<<progress.enqueued[i]>>)

(* C9 (amended): the events emitted between the call's tool_call and
   tool_result events are, in the order enqueued, the conversions of the
   enqueued events that convert to an SSE event (a step; an html_delta with
   content; an image, file or video with files), up to the first event whose
   conversion raises; an event that converts to nothing emits nothing; no
   progress event comes after the tool_result; this for every interleaving
   of the tool task and the drain. *)
C9_ConvertedEventsEmitted ==
    /\ pc \in {"progress", "closed"} =>
        /\ events[progress.call_at].via = "emit_tool_call"
        /\ \A k \in AfterCallAt : events[k].message_type # "tool_result"
        /\ IsPrefix(Shown(Emitted), Converted(UpToRaise(progress.enqueued)))
    /\ CallEnded =>
        /\ events[progress.call_at].via = "emit_tool_call"
        /\ Shown(Emitted) = Converted(UpToRaise(progress.enqueued))
        /\ \A k \in AfterCallAt :
            (k > ResultAt /\ events[k].cycle = events[ResultAt].cycle)
                => events[k].via \in {"emit_tool_call", "emit_tool_result"}

\* a call whose tool put two steps ended with both emitted before its result
C9_Witness ==
    /\ CallEnded
    /\ progress.enqueued = <<ProgressEvent("step", "step1"), ProgressEvent("step", "step2")>>
    /\ Len(Emitted) = 2
    /\ events[ResultAt].data = "ok"

(* C10: ToolRegistry.execute never raises to its caller; an unknown name
   gives "Error: Tool '{name}' not found", a validation failure gives
   "Error: Invalid parameters for tool ..." without the tool's execute being
   called, an exception raised by validation or by the tool gives
   "Error executing {name}: {message}". *)
C10_ExecuteNeverRaises ==
    \A i \in Positions(exec_log) :
        LET e == exec_log[i]
            b == e.behaviour
        IN /\ ~e.out.raised
           /\ ~e.registered =>
                e.out.result = "Error: Tool '" \o e.name \o "' not found" /\ ~e.out.called
           /\ (e.registered /\ b.validate = "errors") =>
                /\ e.out.result =
                     "Error: Invalid parameters for tool '" \o e.name \o "': " \o b.value
                /\ ~e.out.called
           /\ (e.registered /\ (b.validate = "raises" \/ (b.validate = "ok" /\ b.run = "raises"))) =>
                e.out.result = "Error executing " \o e.name \o ": " \o b.value
           /\ (e.registered /\ b.validate = "ok" /\ b.run = "returns") =>
                e.out.result = b.value /\ e.out.called

\* a registered tool whose execute raised
C10_Witness ==
    \E i \in Positions(exec_log) :
        /\ exec_log[i].registered
        /\ exec_log[i].behaviour.run = "raises"
        /\ exec_log[i].out.called
        /\ exec_log[i].out.result = "Error executing " \o exec_log[i].name \o ": boom"

(* C11: when _process_message raises for an inbound message, run() publishes
   "Sorry, I encountered an error: {message}" to that message's channel and
   chat_id, stays running, and goes on to consume and process the inbound
   messages published afterwards. *)
C11_ErrorReply ==
    (pc = "done" /\ req.entry = "bus" /\ obs.raised) =>
        /\ Last(outbound) =
             [channel |-> req.channel, chat_id |-> JoinColon(req.chat_segs),
              content |-> "Sorry, I encountered an error: boom", type |-> "reply",
              metadata |-> {}]
        /\ \A i \in 1..(Len(outbound) - 1) : outbound[i].type = "tool"
        /\ obs.env < MaxEnv => ENABLED Run

\* a message consumed after an error reply was processed to its final reply
C11_Witness ==
    /\ obs.errors >= 1
    /\ pc = "done" /\ req.entry = "bus" /\ ~obs.raised
    /\ Last(outbound).type = "reply"
    /\ Last(outbound).content = "hi"

(* C12 (as claimed): when a provider turn ends with finish_reason error (a chat
   response, or a stream whose last delta carries it, whatever deltas came
   before), the reason-act loop ends with that turn: no tool is executed for
   it and the provider is not called again in that invocation. *)
C12_ErrorTurnEndsLoop ==
    obs.error_turn > 0 =>
        /\ pc \in {"finish", "done"}
        /\ obs.provider_calls = obs.error_turn

(* C13 (as claimed): process_direct(content, session_key, ...) reads its
   history from, and appends its (user, assistant) pair to, the session named
   by its session_key argument; calls with different session_key values
   never read or write the same session. *)
C13_DirectUsesSessionKey ==
    [][ (pc = "finish" /\ req.entry = "direct" /\ pc' = "done") =>
            /\ LET sent == build_messages(sessions[req.session_key_arg], req.content)
               IN SubSeq(messages, 1, Len(sent)) = sent
            /\ sessions' = [sessions EXCEPT ![req.session_key_arg] =
                                save_pair(@, req.content, final_content')]
      ]_vars

(* C14: for a system-channel message whose chat_id is "C:I" (split at the
   first colon only) the reply is addressed to channel C and chat_id I, the
   session used is the one keyed C:I, and the user entry stored is
   "[System: {sender_id}] {content}"; a chat_id without a colon is routed to
   channel cli with the chat_id unchanged. *)
SystemDone == pc = "done" /\ req.entry = "bus" /\ req.channel = "system" /\ ~obs.raised

\* the origin of the chat_ids of the system announcements, written out
ExpectedOrigin ==
    IF JoinColon(req.chat_segs) = "cli:c1:x"
    THEN [channel |-> "cli", chat_id |-> "c1:x", key |-> "cli:c1:x"]
    ELSE [channel |-> "cli", chat_id |-> JoinColon(req.chat_segs),
          key |-> "cli:" \o JoinColon(req.chat_segs)]

C14_SystemRouting ==
    SystemDone =>
        /\ Last(outbound) = [channel |-> ExpectedOrigin.channel,
                             chat_id |-> ExpectedOrigin.chat_id,
                             content |-> final_content, type |-> "reply",
                             metadata |-> {}]
        /\ Len(sessions[ExpectedOrigin.key]) >= 2
        /\ LET h == sessions[ExpectedOrigin.key]
           IN /\ h[Len(h) - 1] = [role |-> "user", content |-> "[System: child] done"]
              /\ h[Len(h)] = [role |-> "assistant", content |-> final_content]
        /\ \A k \in {BusKey, OriginKey} \ {ExpectedOrigin.key} :
             Len(sessions[k]) = 2 * obs.completed[k]

\* an announcement with chat_id "cli:c1:x" was answered, after one with the
\* chat_id "c1" (no colon) had been stored in the session cli:c1
C14_Witness ==
    /\ SystemDone
    /\ req.chat_segs = <<"cli", "c1", "x">>
    /\ Last(outbound).chat_id = "c1:x"
    /\ sessions["cli:c1:x"] # <<>>
    /\ sessions["cli:c1"] # <<>>
    /\ sessions["cli:c1"][1].content = "[System: child] done"

(* C15 (as claimed): in every entry point (bus, direct, system channel, SSE)
   the message, spawn and cron tools hold, before the first provider call of
   an invocation, the (channel, chat_id) of the message or request being
   processed (the parsed origin pair for a system-channel message). *)
C15_ToolContext ==
    (pc \in {"loop", "stream", "tools", "progress"}) =>
        tool_context = [channel |-> Route(req).channel, chat_id |-> Route(req).chat_id]

(* C16: during an invocation the session history is not modified until the
   reason-act loop has ended: provider calls and tool executions leave it
   unchanged; the only mutation is the final append of one user entry and one
   assistant entry; no entry with role tool and no assistant entry carrying
   tool_calls is ever added to the persisted history. *)
C16_HistoryFrame ==
    [][ sessions' # sessions =>
            /\ pc' = "done"
            /\ \E k \in SessionKeys :
                /\ \A j \in SessionKeys \ {k} : sessions'[j] = sessions[j]
                /\ Len(sessions'[k]) = Len(sessions[k]) + 2
                /\ SubSeq(sessions'[k], 1, Len(sessions[k])) = sessions[k]
                /\ LET u == sessions'[k][Len(sessions[k]) + 1]
                       a == sessions'[k][Len(sessions[k]) + 2]
                   IN /\ u.role = "user" /\ DOMAIN u = {"role", "content"}
                      /\ a.role = "assistant" /\ DOMAIN a = {"role", "content"}
      ]_vars

\* an invocation that executed tools ended with one pair added to its session
C16_Witness ==
    /\ pc = "done"
    /\ obs.dispatched >= 1
    /\ \E p \in Positions(messages) : messages[p].role = "tool"
    /\ sessions[Key] = obs.before \o
         << [role |-> "user", content |-> req.content],
            [role |-> "assistant", content |-> final_content] >>

(* C17: for every inbound message consumed by run() exactly one outbound
   message without metadata.type = "tool" is published (the final reply or
   the error reply); it comes after every tool notification of that message
   and before the processing of the next inbound message starts. *)
Replies == {i \in Positions(outbound) : outbound[i].type # "tool"}
Notifications == {i \in Positions(outbound) : outbound[i].type = "tool"}

C17_OneReply ==
    /\ [](req.entry = "bus" =>
            /\ pc # "done" => Replies = {}
            /\ pc = "done" => Replies = {Len(outbound)}
            /\ Cardinality(Notifications) = obs.dispatched)
    /\ [][ (req.entry = "bus" /\ obs'.requests # obs.requests) =>
                (pc = "done" /\ Replies = {Len(outbound)}) ]_vars

\* two inbound messages of one session were each answered with one reply,
\* the second taken up after the reply to the first
C17_Witness ==
    /\ pc = "done" /\ req.entry = "bus"
    /\ obs.requests >= 2
    /\ Len(sessions[BusKey]) = 4
    /\ Replies = {Len(outbound)}

(* C18: for two inbound messages of one session consumed by run() in the
   order m1, m2, the (user, assistant) pair of m1 precedes the pair of m2 in
   the session history, and the history passed to the provider for m2 already
   contains m1's pair. *)
BusSessionKey == IF req.channel = "system" THEN ExpectedOrigin.key ELSE BusKey
BusSaved == pc = "done" /\ ~obs.raised

C18_HistoryOrder ==
    (req.entry = "bus") =>
        LET b == obs.before
            k == BusSessionKey
        IN /\ Len(b) = 2 * (obs.completed[k] - (IF BusSaved THEN 1 ELSE 0))
           /\ Len(messages) >= Len(b) + 2
           /\ \A i \in Positions(b) :
                /\ messages[i + 1].role = b[i].role
                /\ messages[i + 1].content = b[i].content
           /\ messages[Len(b) + 2] =
                [role |-> "user", content |-> req.content, tool_calls |-> <<>>,
                 tool_call_id |-> ""]
           /\ sessions[k] =
                IF BusSaved
                THEN b \o << [role |-> "user", content |-> user_entry(req)],
                             [role |-> "assistant", content |-> final_content] >>
                ELSE b

\* the second message of the session cli:c1 was answered: the provider was
\* given the first pair, and the second pair follows it in the history
C18_Witness ==
    /\ req.entry = "bus" /\ BusSaved
    /\ Len(obs.before) = 2
    /\ messages[2].content = obs.before[1].content
    /\ messages[3].role = "assistant"
    /\ Len(sessions[BusKey]) = 4
    /\ sessions[BusKey][2].content # sessions[BusKey][4].content

(* ---------------------------- C19 -------------------------------------- *)

\* the glob of the statement: * any run, ? one character, literal otherwise
RECURSIVE SimpleGlob(_, _)
SimpleGlob(name, pat) ==
    IF pat = <<>> THEN name = <<>>
    ELSE IF Head(pat) = "*"
    THEN SimpleGlob(name, Tail(pat)) \/ (name # <<>> /\ SimpleGlob(Tail(name), pat))
    ELSE IF Head(pat) = "?"
    THEN name # <<>> /\ SimpleGlob(Tail(name), Tail(pat))
    ELSE name # <<>> /\ Head(name) = Head(pat) /\ SimpleGlob(Tail(name), Tail(pat))

\* position of the first occurrence of x in s
FirstAt(s, x) == CHOOSE i \in 1..Len(s) : s[i] = x /\ \A j \in 1..(i - 1) : s[j] # x

\* result is exactly the names matching a pattern under glob G, each once,
\* in the order of their first appearance in names
ExactlyMatching(G(_, _), names, patterns, result) ==
    /\ Range(result) =
          {n \in Range(names) : \E i \in 1..Len(patterns) : G(n, patterns[i])}
    /\ \A i, j \in 1..Len(result) : result[i] = result[j] => i = j
    /\ \A i, j \in 1..Len(result) :
          i < j => FirstAt(names, result[i]) < FirstAt(names, result[j])

\* what a call recorded in match_call must have returned under glob G
MatchContract(G(_, _)) ==
    /\ match_call.via = "match_patterns" =>
          IF all_patterns(match_call.patterns)
          THEN match_call.result = match_call.names
          ELSE ExactlyMatching(G, match_call.names, match_call.patterns,
                               match_call.result)
    /\ match_call.via = "tool_definitions" =>
          LET expected == IF all_patterns(match_call.patterns) THEN match_call.names
                          ELSE SelectSeq(match_call.names,
                                   LAMBDA n : \E i \in 1..Len(match_call.patterns) :
                                                  G(n, match_call.patterns[i]))
          IN IF expected = <<>> THEN match_call.result = NoneStr
             ELSE match_call.result = expected

\* C19 (as stated): _match_patterns returns exactly the names matching at
\* least one pattern, where * is any run, ? one character and every other
\* character is literal, each once, in the order of names; every name for an
\* empty pattern list or ["*"]; the schema list of an SSE request is exactly
\* the registered tools matching tool_list, in registration order.
C19_SimpleGlobMatch == MatchContract(SimpleGlob)

\* C19 (amended): the same, with the patterns read as fnmatch.fnmatch reads
\* them: * any run, ? one character, [seq] and [!seq] one character in or
\* not in seq, an unclosed [ and every other character literal; the schema
\* list is None when no registered tool matches.
C19_FnmatchMatch == MatchContract(fnmatch)

\* C19 witness: a call with a duplicated name and two patterns, one of them a
\* character class, returned the name once
C19_Witness ==
    /\ match_call.via = "match_patterns"
    /\ match_call.names = << <<"a", "b">>, <<"a", "b">> >>
    /\ match_call.patterns = << <<"[", "a", "]">>, <<"a", "*">> >>
    /\ match_call.result = << <<"a", "b">> >>

(* ---------------------------- C20 -------------------------------------- *)

\* the indices of the fragments fed, and the k-th smallest of them
FedIndices == {stream_log.fed[i].index : i \in 1..Len(stream_log.fed)}
KthFedIndex(k) ==
    CHOOSE x \in FedIndices : Cardinality({y \in FedIndices : y < x}) = k - 1

\* the concatenation, in arrival order, of the argument fragments of index idx
RECURSIVE ArgsOf(_, _)
ArgsOf(fed, idx) ==
    IF fed = <<>> THEN ""
    ELSE (IF Head(fed).index = idx /\ Head(fed).args # NoneStr
          THEN Head(fed).args ELSE "") \o ArgsOf(Tail(fed), idx)

\* the last value of a field (given as a sequence, NoneStr where unset)
\* among the fragments of index idx, "" when no fragment set it
LastSet(field, idx) ==
    LET at == {i \in 1..Len(stream_log.fed) :
                  stream_log.fed[i].index = idx /\ field[i] # NoneStr}
    IN IF at = {} THEN ""
       ELSE field[CHOOSE i \in at : \A j \in at : j <= i]

FedIds == [i \in 1..Len(stream_log.fed) |-> stream_log.fed[i].id]
FedNames == [i \in 1..Len(stream_log.fed) |-> stream_log.fed[i].name]

\* C20: once the calls of a stream turn are built, there is one call per
\* distinct fragment index, in ascending index order; its arguments string is
\* the concatenation in arrival order of the argument fragments of its index,
\* its id and name are the last non-empty ones of its index, and it is
\* dispatched with the parsed mapping, or with the empty mapping when the
\* string is empty or not valid JSON.
C20_FragmentsGrouped ==
    stream_log.calls # <<>> =>
        /\ Len(stream_log.calls) = Cardinality(FedIndices)
        /\ Len(todo) = Cardinality(FedIndices)
        /\ \A k \in 1..Len(stream_log.calls) :
              LET idx == KthFedIndex(k)
                  text == ArgsOf(stream_log.fed, idx)
              IN /\ todo[k].arguments = text
                 /\ todo[k].id = LastSet(FedIds, idx)
                 /\ todo[k].name = LastSet(FedNames, idx)
                 /\ stream_log.calls[k].id = todo[k].id
                 /\ stream_log.calls[k].name = todo[k].name
                 /\ stream_log.calls[k].tc_args =
                        IF text = "{\"a\":1}" THEN {<<"a", 1>>} ELSE {}

\* C20 witness: fragments of index 1 and 0 arrived interleaved, index 0 got
\* its arguments in two pieces and its id twice; two calls were built, the
\* first with the parsed mapping and the later id, the second with a string
\* that is not valid JSON and the empty mapping
C20_Witness ==
    /\ Len(stream_log.fed) = 3
    /\ stream_log.fed[1] = Fragment(0, "t1", PlainTool, ArgsHead)
    /\ stream_log.fed[2] = Fragment(1, "t2", NoneStr, ArgsTail)
    /\ stream_log.fed[3] = Fragment(0, "t2", NoneStr, ArgsTail)
    /\ Len(stream_log.calls) = 2
    /\ stream_log.calls[1] = [id |-> "t2", name |-> PlainTool, tc_args |-> {<<"a", 1>>}]
    /\ stream_log.calls[2] = [id |-> "t2", name |-> "", tc_args |-> {}]
    /\ todo[2].arguments = ArgsTail

(* ---------------------------- C21 -------------------------------------- *)

\* the error strings ToolRegistry.execute returns
ErrorResults ==
    { NotFound(n) : n \in ToolNames }
    \cup { InvalidParams(n, "missing x") : n \in ToolNames }
    \cup { ErrorExecuting(n, "boom") : n \in ToolNames }

\* the last wire message is the result of a tool call and an error string
ErrorResultLast ==
    /\ messages # <<>>
    /\ Last(messages).role = "tool"
    /\ Last(messages).content \in ErrorResults

\* C21: a tool call that the registry answers (the step that takes the call
\* off the turn's list, outside the progress helper) appends one tool message
\* with the call's id to the wire list; when the result is an error string
\* the step goes on to the next call, else to the head of the loop while
\* iterations remain, nothing is raised, no error reply and no error event is
\* produced; and at the head of the loop after an error result the next
\* provider call can be made.
C21_ErrorResultContinues ==
    /\ [](( pc = "loop" /\ ErrorResultLast ) =>
            ( ~obs.raised /\ ENABLED (Chat \/ NonStreamChat \/ StreamOpen) ))
    /\ [][ ( pc = "tools" /\ todo' # todo /\ obs.dispatched' # obs.dispatched ) =>
            /\ Len(messages') = Len(messages) + 1
            /\ SubSeq(messages', 1, Len(messages)) = messages
            /\ Last(messages').role = "tool"
            /\ Last(messages').tool_call_id = Head(todo).id
            /\ Last(messages').content \in ErrorResults =>
                /\ pc' = IF Tail(todo) # <<>> THEN "tools"
                         ELSE IF iteration < max_iterations THEN "loop" ELSE "finish"
                /\ ~obs'.raised
                /\ obs'.errors = obs.errors
                /\ \A i \in 1..Len(outbound') : outbound'[i].type = "tool"
                /\ \A i \in 1..Len(events') : events'[i].message_type # "error"
         ]_vars

\* C21 witness: a bus turn made three calls, one raised, one had invalid
\* parameters, one named an unknown tool; the three error strings are tool
\* messages, the provider was called again and the invocation ended with the
\* ordinary reply
C21_Witness ==
    /\ pc = "done" /\ req.entry = "bus" /\ ~obs.raised /\ obs.errors = 0
    /\ Len(messages) = 6
    /\ messages[4].content = ErrorExecuting(PlainTool, "boom")
    /\ messages[5].content = InvalidParams(ProgressTool, "missing x")
    /\ messages[6].content = NotFound(UnknownTool)
    /\ obs.provider_calls = 2
    /\ Last(outbound) = OutboundMessage("cli", "c1", "hi", "reply")

(* ---------------------------- C22 -------------------------------------- *)

\* C22: once the consumer has stopped iterating and the stream generator is
\* closed, the background task the helper started is not running any more.
C22_TaskCancelledOnClose ==
    pc = "closed" => progress.task # "running"

(* ---------------------------- C23 -------------------------------------- *)

\* the helper of the current tool call has finished by itself (its consumer
\* received the result and went on)
HelperFinished == progress.task # "none" /\ pc \notin {"progress", "closed"}

\* C23: a helper that finished yielded exactly one (False, result) item, as
\* its last item; if converting a drained event raised, the task is
\* cancelled unless it was done and the result is "Error executing
\* {tool_name}: {message}", else the result is what the task returned; and
\* whenever the helper is not running (finished or closed by its consumer)
\* the tool's progress channel is None.
C23_HelperResult ==
    /\ (pc # "progress") => progress.channel = "none"
    /\ (pc = "progress") => \A i \in 1..Len(progress.yielded) : progress.yielded[i].is_sse
    /\ HelperFinished =>
        /\ progress.yielded # <<>>
        /\ ~Last(progress.yielded).is_sse
        /\ \A i \in 1..(Len(progress.yielded) - 1) : progress.yielded[i].is_sse
        /\ Last(progress.yielded).value = progress.result
        /\ progress.task \in {"done", "cancelled"}
        /\ (\E i \in 1..Len(progress.enqueued) :
                /\ conversion_raises(progress.enqueued[i])
                /\ Len(progress.queue) <= Len(progress.enqueued) - i)
            => progress.result = ErrorExecuting(progress.tool_name, "invalid files")
        /\ progress.task = "cancelled"
            => progress.result = ErrorExecuting(progress.tool_name, "invalid files")

\* C23 witness: the helper yielded a progress event, then the conversion of
\* the next event raised while the task was running; the task was cancelled
\* and the error string was yielded last
C23_Witness ==
    /\ HelperFinished
    /\ progress.task = "cancelled"
    /\ Len(progress.yielded) = 2
    /\ progress.yielded[1].is_sse
    /\ progress.yielded[2] = ResultItem(ErrorExecuting(ProgressTool, "invalid files"))
    /\ progress.channel = "none"

(* ---------------------------- C24 -------------------------------------- *)

\* C24: once stop() has been called while run() is executing, run() starts
\* processing at most one more inbound message, and it terminates.
C24_StopTerminates ==
    /\ [](run_loop.stopped => run_loop.after_stop <= 1)
    /\ (run_loop.stopped ~> run_loop.at = "exited")

\* C24 witness: stop() was called while run() waited for a message, one more
\* message was received and answered, and run() has returned
C24_Witness ==
    /\ run_loop.stopped /\ run_loop.after_stop = 1
    /\ run_loop.at = "exited"
    /\ Len(outbound) = 1

(* ---------------------------- C25 -------------------------------------- *)

\* the classes that declare AUTO_REGISTER_DEPS
Declaring ==
    {ToolClasses[i] : i \in {j \in 1..Len(ToolClasses) : ToolClasses[j].declares}}

\* C25: after auto_register_all(deps), a tool registered under a declaring
\* class's name before the call is still the same instance; otherwise the
\* class is registered exactly when every key it lists has a value in deps
\* and its constructor succeeds; and a second call with the same deps leaves
\* the registry as the first call left it.
C25_AutoRegister ==
    auto_reg.calls >= 1 =>
        /\ \A c \in Declaring :
              IF c.name \in DOMAIN auto_reg.before
              THEN auto_reg.first[c.name] = auto_reg.before[c.name]
              ELSE (c.name \in DOMAIN auto_reg.first) <=>
                      ( /\ \A k \in c.required : auto_reg.deps[k] = "value"
                        /\ c.ctor = "ok" )
        /\ auto_reg.calls = 2 => auto_reg.registry = auto_reg.first

(* ---------------------------- C26 -------------------------------------- *)

\* C26: when an inbound message has been processed, the reply published for
\* it (the last outbound message) carries the message's metadata.
C26_MetadataPreserved ==
    (pc = "done" /\ req.entry = "bus") =>
        /\ Last(outbound).type = "reply"
        /\ Last(outbound).metadata = req.metadata

(* ---------------------------- C27 -------------------------------------- *)

\* a cron job has been run through process_direct and on_cron_job returned
CronDone ==
    pc = "done" /\ req.entry = "direct" /\ req.session_key_arg = "cron:j1"
    /\ ~obs.raised

\* the message on_cron_job delivers for the job
CronReply ==
    OutboundMessage(IF req.payload.channel # "" THEN req.payload.channel
                    ELSE "whatsapp",
                    req.payload.to, final_content, "reply")

CronDelivers == req.payload.deliver /\ req.payload.to # ""

\* C27 (as stated): when on_cron_job has returned, exactly one outbound
\* message, carrying the reply and addressed to the delivery target, has been
\* published if the payload has deliver = true and a target, and nothing has
\* been published otherwise.
C27_CronPublishesOnlyReply ==
    CronDone => outbound = IF CronDelivers THEN <<CronReply>> ELSE <<>>

\* C27 (amended): the same, apart from the tool notifications process_direct
\* publishes to cli:direct, one per tool call, all before the delivery.
C27_CronDelivery ==
    CronDone =>
        /\ SelectSeq(outbound, LAMBDA m : m.type # "tool") =
                IF CronDelivers THEN <<CronReply>> ELSE <<>>
        /\ Len(SelectSeq(outbound, LAMBDA m : m.type = "tool")) = obs.dispatched
        /\ \A i \in 1..Len(outbound) :
              outbound[i].type = "tool" =>
                  /\ outbound[i].channel = "cli" /\ outbound[i].chat_id = "direct"
                  /\ CronDelivers => i < Len(outbound)

\* C27 witness: a delivering job without a channel called a tool; the tool
\* notification and then the reply, addressed to whatsapp, were published
C27_Witness ==
    /\ CronDone /\ CronDelivers /\ req.payload.channel = ""
    /\ Len(outbound) = 2
    /\ outbound[1].type = "tool"
    /\ outbound[2] = OutboundMessage("whatsapp", "u1", "hi", "reply")

(* ---------------------------- C28 -------------------------------------- *)

PromptPrints ==
    SelectSeq(console.log, LAMBDA e : e.op = "console.print(end='')"
                                      /\ e.text = InteractivePrompt)
PlainInputs ==
    SelectSeq(console.log, LAMBDA e : e.op = "input" /\ e.text = "")

\* C28: a call of _read_interactive_input prints the prompt
\* "[bold blue]You:[/bold blue] " once through the console with end="", then
\* reads one line with the built-in input called with an empty prompt, and
\* returns exactly the string input returned.
C28_ReadInteractiveInput ==
    console.call # "none" =>
        /\ console.call = "returned"
        /\ Len(PromptPrints) = 1
        /\ Len(PlainInputs) = 1
        /\ console.returned = console.typed

(* ---------------------------- C29 -------------------------------------- *)

\* the request restricts the tool set, and this step hands the next call of
\* the turn to a registered tool
RestrictedDispatch ==
    /\ req.entry = "sse"
    /\ ~all_patterns(req.tool_list)
    /\ pc = "tools"
    /\ obs.dispatched' = obs.dispatched + 1
    /\ next_call(todo).name \in tools

\* C29: in an SSE request whose tool_list restricts the tool set, every tool
\* that is executed has a name matching tool_list, whatever names the provider
\* returned.
C29_OnlyListedToolsRun ==
    [][ RestrictedDispatch =>
            /\ tools_defs # NoneStr
            /\ ToolChars(next_call(todo).name) \in Range(tools_defs) ]_vars

(* ---------------------------- C30 -------------------------------------- *)

\* every event a request's stream carries was produced by that request's
\* invocation, and no event was lost for want of a channel
OwnEventsOnly ==
    \A i \in Invocations :
        /\ \A k \in 1..Len(shared.inv[i].yielded) : shared.inv[i].yielded[k].by = i
        /\ shared.inv[i].dropped = 0

\* an invocation whose tool has begun saw its own session_id and request_id
OwnIds ==
    \A i \in Invocations :
        shared.inv[i].task \in {"running", "done"} =>
            /\ shared.inv[i].seen.session_id = CtxOf(i).session_id
            /\ shared.inv[i].seen.request_id = CtxOf(i).request_id

\* invocation j finishes while i is still running with its channel installed
FinishesBeside(j, i) ==
    /\ shared.inv[j].at = "drain" /\ shared'.inv[j].at = "done"
    /\ shared.inv[i].at = "drain"
    /\ shared.instance.queue = i

\* C30: when two SSE requests run the same progress tool instance
\* concurrently, each progress event is delivered only on the stream of the
\* request that produced it, each invocation sees its own session_id and
\* request_id, and a request that finishes leaves the channel of the other,
\* still running, in place.
C30_RequestsIsolated ==
    /\ [](OwnEventsOnly /\ OwnIds)
    /\ [][ \A i \in Invocations :
             FinishesBeside(Other(i), i) => shared'.instance.queue = i ]_vars

(* ---------------------------- C31 -------------------------------------- *)

\* C31: while run() processes a message, a concurrent process_direct call
\* does not change the (channel, chat_id) context the message's tool calls
\* use: each of them acts on the conversation of the message that issued it.
C31_ToolContextOfOwnMessage ==
    \A i \in Invocations :
        conc.inv[i].req.entry = "bus" =>
            \A k \in 1..Len(conc.inv[i].acted) :
                conc.inv[i].acted[k] =
                    [channel |-> Route(conc.inv[i].req).channel,
                     chat_id |-> Route(conc.inv[i].req).chat_id]

(* ---------------------------- C34 -------------------------------------- *)

\* C34: when requests on one session are processed concurrently, every user
\* entry of the history is immediately followed by the assistant entry of the
\* same request; the pairs of different requests never interleave.
C34_PairsNeverInterleave ==
    \A key \in SessionKeys :
        LET h == conc.sessions[key]
        IN /\ Len(h) % 2 = 0
           /\ \A p \in 1..Len(h) :
                p % 2 = 1 =>
                    \E i \in Invocations :
                        /\ h[p] = [role |-> "user", content |-> ConcUser(i)]
                        /\ h[p + 1] = [role |-> "assistant", content |-> ConcFinal(i)]

\* two requests on one session overlapped, each made a tool turn, and both
\* completed: the session holds the pair of the second to finish after the
\* pair of the first
C34_Witness ==
    /\ \A i \in Invocations : conc.inv[i].at = "done" /\ conc.inv[i].turns >= 1
    /\ conc.inv[2].overlapped
    /\ Route(conc.inv[1].req).key = Route(conc.inv[2].req).key
    /\ Len(conc.sessions[Route(conc.inv[1].req).key]) = 4
    /\ conc.sessions[Route(conc.inv[1].req).key][1].content = ConcUser(2)

(* ---------------------------- C32 -------------------------------------- *)

\* C32: the deltas of the default stream_chat, fed into the accumulator of the
\* stream loop, give the content of the response and its tool calls (id, name,
\* arguments) in order, also for a response with two or more tool calls.
C32_FallbackEquivalent ==
    fallback.at = "end" =>
        /\ fallback.content = fallback.response.content
        /\ fallback.calls = fallback.response.tool_calls

(* ---------------------------- C33 -------------------------------------- *)

\* C33: when the provider raises during an invocation (bus, direct or SSE),
\* the session history after the invocation is the history before it: neither
\* a user nor an assistant entry is appended.
C33_RaiseLeavesHistory ==
    (pc = "done" /\ obs.raised) => sessions[Key] = obs.before

\* the provider raised on the turn after a tool call, on a session that had a
\* saved pair
C33_Witness ==
    /\ pc = "done" /\ obs.raised
    /\ obs.dispatched >= 1
    /\ Len(obs.before) = 2

(* ---------------------------- C35 -------------------------------------- *)

\* C35: when processing a system-channel inbound message raises, the error
\* reply run() publishes is addressed to the origin (channel, chat_id) parsed
\* from the message's chat_id, where a successful reply to it would go.
C35_SystemErrorReplyToOrigin ==
    (pc = "done" /\ req.entry = "bus" /\ req.channel = "system" /\ obs.raised) =>
        /\ Last(outbound).type = "reply"
        /\ Last(outbound).channel = response(req, "hi").channel
        /\ Last(outbound).chat_id = response(req, "hi").chat_id

(* ---------------------------- C36 -------------------------------------- *)

\* the handler has answered a request whose agent_type is not "agent"
Rejected == pc = "done" /\ req.entry = "sse" /\ req.agent_type # "agent"

\* C36: for a request whose agent_type is not "agent", handle emits exactly
\* two events, an error with message_order 1 and then done with message_order
\* 2, and never invokes the agent: no provider call, no session created or
\* modified.
C36_RejectedRequest ==
    /\ [](Rejected =>
            /\ Len(events) = 2
            /\ events[1].message_type = "error" /\ events[1].message_order = 1
            /\ events[2].message_type = "done" /\ events[2].message_order = 2
            /\ obs.provider_calls = 0
            /\ sessions[Key] = obs.before
            /\ ~ENABLED (NonStreamChat \/ StreamOpen \/ SseRaise))
    /\ [][Rejected' /\ obs.requests' # obs.requests => sessions' = sessions]_vars

\* an unknown agent_type was rejected after a request had left a saved pair
C36_Witness ==
    /\ Rejected
    /\ req.agent_type = "other"
    /\ Len(sessions[Key]) = 2

(* ---------------------------- C37 -------------------------------------- *)

CompletedTexts ==
    {k \in Positions(events) :
        events[k].message_type = "text" /\ events[k].status = "completed"}

\* C37: in non-stream mode a request that completes without an exception
\* emits exactly one text event with status completed; it carries the final
\* assistant text (or the sentinel) and is the event immediately before done.
C37_OneCompleteText ==
    (SseDone /\ ~req.stream /\ ~obs.raised /\ ~obs.rejected) =>
        /\ Len(events) >= 2
        /\ CompletedTexts = {Len(events) - 1}
        /\ events[Len(events) - 1].data = final_content
        /\ final_content \in {"hi", Sentinel}
        /\ events[Len(events)].message_type = "done"

\* a non-stream request ran out of iterations after tool turns, one of them
\* with a progress text, and ended with the sentinel as its complete text
C37_Witness ==
    /\ SseDone /\ ~req.stream /\ ~obs.raised /\ ~obs.rejected
    /\ obs.tool_turns = max_iterations
    /\ final_content = Sentinel
    /\ \E k \in Positions(events) :
        events[k].message_type = "text" /\ events[k].status = "processing"

(* ---------------------------- C38 -------------------------------------- *)

\* C38: when the request has enable_thinking = false, no event with
\* message_type thought is emitted in either SSE mode, whatever reasoning the
\* provider returns.
C38_NoThoughtUnlessEnabled ==
    (req.entry = "sse" /\ ~req.enable_thinking) =>
        \A k \in Positions(events) : events[k].message_type # "thought"

\* a stream request without thinking received a thinking delta (the one item
\* the provider produced so far) and emitted nothing for it
C38_Witness ==
    /\ req.entry = "sse" /\ req.stream /\ ~req.enable_thinking
    /\ pc = "stream"
    /\ obs.env = obs.requests + 1
    /\ accumulated_content = <<>>
    /\ DOMAIN pending_tool_calls = {}
    /\ events = <<>>

(* ---------------------------- C39 -------------------------------------- *)

\* C39: a WebSocket connection's messages are published to the bus only after
\* it sent an auth message and its client_id passed the allowlist; a
\* connection whose first message is not auth, whose client_id is not
\* allowed, or that sends nothing within the authentication window never
\* causes an inbound message to be published.
C39_PublishOnlyAuthenticated ==
    \A k \in 1..Len(ws.bus) :
        LET conn == ws.conns[ws.bus[k].conn]
        IN /\ conn.first = "auth"
           /\ conn.client_id \in AllowFrom
           /\ ws.bus[k].sender_id = conn.client_id

\* one connection authenticated and published a message, the other was turned
\* away for its client_id
C39_Witness ==
    /\ Len(ws.bus) = 1
    /\ ws.conns[ws.bus[1].conn].at = "open"
    /\ \E c \in Invocations :
        /\ ws.conns[c].first = "auth"
        /\ ws.conns[c].client_id = "b"
        /\ ws.conns[c].at = "closed"

(* ---------------------------- C40 -------------------------------------- *)

\* C40: while an authenticated connection is open its client_id stays
\* registered, so that send() for that chat_id reaches an open connection of
\* that client; also when another connection authenticates with the same
\* client_id and later closes.
C40_OpenStaysRegistered ==
    \A c \in Invocations :
        ws.conns[c].at = "open" =>
            /\ ws.clients[ws.conns[c].client_id] # 0
            /\ ws.conns[ws.clients[ws.conns[c].client_id]].at = "open"

====
